---- MODULE Spec2Model ----
(***************************************************************************)
(* Tennis Scorekeeper: the scoring state machine, its point history with   *)
(* undo, the manual overrides (join in progress, fast forward, end match,  *)
(* format change) and the stored match list.                               *)
(*                                                                         *)
(* The model follows the root component's data() and methods.  A method is *)
(* an operator over the match record (and the stored list) and an action   *)
(* that applies it; every method can be called whenever its own guards     *)
(* allow, as the methods themselves check `!this.match`, `matchComplete`   *)
(* and `pointHistory.length`.                                              *)
(*                                                                         *)
(* Not modelled: display-only metadata (tournament, date, court, round,    *)
(* startTime, timestamp) and the statistics panel.  The point-entry dialog *)
(* is followed button by button in SpecEntry, and the game-complete        *)
(* prompt, its timer and the fast forward and end match dialogs in         *)
(* SpecDialogs; the other sessions enter a point or a correction in one    *)
(* step and leave the dialogs, the timers and the game comments as data()  *)
(* and createMatch() build them.                                           *)
(***************************************************************************)
EXTENDS Integers, Sequences, FiniteSets, TLC

VARIABLES
    stage,      \* 'review' | 'setup' | 'match'
    match,      \* the active match object, NoMatch for null
    matches,    \* the stored match list (this.matches / localStorage)
    nextId,     \* the next value Date.now() yields as a match id
    overrides,  \* manual corrections made so far, counted by kind
    lastOp,     \* the method called last and whether it returned early
    serveModal, \* the point-entry dialog (this.serveModal)
    gameCommentModal,  \* the game-complete prompt (this.gameCommentModal)
    fastForwardModal,  \* the fast forward dialog's visible flag
    endMatchModal,     \* the end match dialog's visible flag
    timers,            \* the setTimeout callbacks not yet run, oldest first, each with
                       \* the set and game number of the record that set it
    gameComments,      \* match.gameComments, by key
    gameWon            \* set and game number of the record whose timer ran last

\* the prompts and dialogs beside the point-entry dialog
prompts == <<gameCommentModal, fastForwardModal, endMatchModal, timers,
             gameComments, gameWon>>

vars == <<stage, match, matches, nextId, overrides, lastOp, serveModal, prompts>>

-----------------------------------------------------------------------------
(* Bounds of the model *)

\* finalisePoint is not called on a history of MaxHist records
MaxHist == 2
\* at most MaxOverrides manual corrections (applyFastForward, confirmEndMatch,
\* changeMatchFormat) are made in one session
MaxOverrides == 1
\* at most MaxMatches matches are started in one session with the stored list
MaxMatches == 1
\* the stored matches opened are among the first MaxRow rows of the list
MaxRow == 2

(* Program constants *)

\* the stored list keeps 50 matches
MaxStored == 50

-----------------------------------------------------------------------------
(* JavaScript values *)

\* null where a string or nothing is expected (winner)
Null == "null"
\* null where an object or nothing is expected (match, pointEnding, restoreState)
NoMatch == [isNull |-> TRUE]
NullObj == [isNull |-> TRUE]

\* A points value is a number, or the string a <select> without .number yields.
Num(n) == [t |-> "number", v |-> n]
Str(n) == [t |-> "string", v |-> n]
\* ToNumber, as the comparisons, the subtraction and ++ coerce
ToNum(x) == x.v
\* x++ on a number or a numeric string stores a number
Incr(x) == Num(ToNum(x) + 1)

Sides == {1, 2}
Opponent(p) == IF p = 1 THEN 2 ELSE 1

\* arr[i] = v for a 0-based index i of a JS array; indices past the end leave holes
Hole == [hole |-> TRUE]
SetAt(arr, i, v) ==
    IF i < Len(arr)
    THEN [arr EXCEPT ![i + 1] = v]
    ELSE arr \o [k \in 1..(i - Len(arr)) |-> Hole] \o <<v>>

\* arr.reduce((s, v) => s + (v ? 1 : 0), 0): holes are skipped, 1 is truthy
RECURSIVE CountWon(_)
CountWon(arr) ==
    IF arr = <<>> THEN 0
    ELSE (IF Head(arr) = 1 THEN 1 ELSE 0) + CountWon(Tail(arr))

\* Math.floor in place of Math.ceil
NeededFloor(fmt) == fmt \div 2

\* Math.ceil(matchFormat / 2)
Needed(fmt) == (fmt + 1) \div 2

-----------------------------------------------------------------------------
(* Construction *)

ZeroStats ==
    [firstServeTotal |-> 0, firstServeIn |-> 0, firstServeWon |-> 0,
     secondServeAttempts |-> 0, secondServeWon |-> 0, aces |-> 0,
     doubleFaults |-> 0, winners |-> 0, unforcedErrors |-> 0]

NoSets == <<0, 0, 0, 0, 0>>

NewPlayer(name, pts) ==
    [name |-> name, sets |-> NoSets, games |-> 0, points |-> pts,
     stats |-> ZeroStats]

\* the setup forms: names are entered, format and first server are radios
Player1Name == "Ann"
Player2Name == "Bob"
Formats == {3, 5}

createMatch(id, fmt, firstServer) ==
    [id |-> id,
     players |-> <<NewPlayer(Player1Name, Num(0)), NewPlayer(Player2Name, Num(0))>>,
     currentSet |-> 0,
     server |-> firstServer,
     matchFormat |-> fmt,
     matchComplete |-> FALSE,
     setScores |-> <<>>,
     pointHistory |-> <<>>,
     gameStartServer |-> firstServer,
     gameComments |-> {},
     isInProgress |-> TRUE,
     winner |-> Null,
     finalSets |-> <<>>,
     \* setScores is the very array stored as finalSets in the list (openMatch)
     sharesStored |-> FALSE]

createJoinMatch(id, form) ==
    [createMatch(id, form.matchFormat, form.currentServer) EXCEPT
        !.players = <<NewPlayer(Player1Name, form.currentPoints[1]),
                      NewPlayer(Player2Name, form.currentPoints[2])>>]

-----------------------------------------------------------------------------
(* Score rules *)

\* checkGameWin without the lead of two
checkGameWinNoLead(m, playerId) ==
    ToNum(m.players[playerId].points) >= 4

checkGameWin(m, playerId) ==
    LET p == ToNum(m.players[playerId].points)
        q == ToNum(m.players[Opponent(playerId)].points)
    IN  p >= 4 /\ (p - q) >= 2

\* checkSetWin without the lead of two
checkSetWinNoLead(m, playerId) ==
    m.players[playerId].games >= 6

checkSetWin(m, playerId) ==
    LET gamesWon  == m.players[playerId].games
        gamesLost == m.players[Opponent(playerId)].games
    IN  gamesWon >= 6 /\ (gamesWon - gamesLost) >= 2

\* checkMatchWin rounding matchFormat / 2 down
checkMatchWinFloor(m, playerId) ==
    CountWon(m.players[playerId].sets) >= m.matchFormat \div 2

\* checkMatchWin asking for one set more than a majority
checkMatchWinStrict(m, playerId) ==
    CountWon(m.players[playerId].sets) > Needed(m.matchFormat)

checkMatchWin(m, playerId) ==
    CountWon(m.players[playerId].sets) >= Needed(m.matchFormat)

\* isSetComplete without the margin of two games
isSetCompleteNoMargin(p1Games, p2Games) ==
    IF p1Games = 0 /\ p2Games = 0 THEN FALSE
    ELSE IF p1Games >= 6 THEN TRUE
    ELSE IF p2Games >= 6 THEN TRUE
    ELSE FALSE

isSetComplete(p1Games, p2Games) ==
    IF p1Games = 0 /\ p2Games = 0 THEN FALSE
    ELSE IF p1Games >= 6 /\ (p1Games - p2Games) >= 2 THEN TRUE
    ELSE IF p2Games >= 6 /\ (p2Games - p1Games) >= 2 THEN TRUE
    ELSE FALSE

-----------------------------------------------------------------------------
(* Statistics *)

IsWinnerStroke(stroke) == stroke \in {"fh-winner", "bh-winner"}
IsUnforcedStroke(stroke) == stroke \in {"fh-unforced", "bh-unforced"}

\* ServeFold that counts no second-serve attempt on a double fault
ServeFoldNoAttempt(s, rec) ==
    LET serve == rec.serveData
        won   == IF rec.winner = rec.server THEN 1 ELSE 0
        s1    == [s EXCEPT !.firstServeTotal = @ + 1]
    IN  IF serve.firstServe # "out"
        THEN [s1 EXCEPT !.firstServeIn = @ + 1,
                        !.aces = @ + (IF serve.firstServe = "ace" THEN 1 ELSE 0),
                        !.firstServeWon = @ + won]
        ELSE IF serve.secondServe = "out"
        THEN [s1 EXCEPT !.doubleFaults = @ + 1]
        ELSE [s1 EXCEPT !.secondServeAttempts = @ + 1,
                        !.aces = @ + (IF serve.secondServe = "ace" THEN 1 ELSE 0),
                        !.secondServeWon = @ + won]

\* the serving side's counters after one point record
ServeFold(s, rec) ==
    LET serve == rec.serveData
        won   == IF rec.winner = rec.server THEN 1 ELSE 0
        s1    == [s EXCEPT !.firstServeTotal = @ + 1]
    IN  IF serve.firstServe # "out"
        THEN [s1 EXCEPT !.firstServeIn = @ + 1,
                        !.aces = @ + (IF serve.firstServe = "ace" THEN 1 ELSE 0),
                        !.firstServeWon = @ + won]
        ELSE IF serve.secondServe = "out"
        THEN [s1 EXCEPT !.secondServeAttempts = @ + 1,
                        !.doubleFaults = @ + 1]
        ELSE [s1 EXCEPT !.secondServeAttempts = @ + 1,
                        !.aces = @ + (IF serve.secondServe = "ace" THEN 1 ELSE 0),
                        !.secondServeWon = @ + won]

updateServeStats(players, rec) ==
    [players EXCEPT ![rec.server].stats = ServeFold(@, rec)]

\* updatePointStats that counts a forced error as an unforced one
updatePointStatsForcedCounts(players, rec) ==
    LET ending == rec.pointEnding
    IN  IF ending = NullObj THEN players
        ELSE IF IsWinnerStroke(ending.strokeType)
        THEN [players EXCEPT ![ending.finalPlayer].stats.winners = @ + 1]
        ELSE [players EXCEPT ![ending.finalPlayer].stats.unforcedErrors = @ + 1]

updatePointStats(players, rec) ==
    LET ending == rec.pointEnding
    IN  IF ending = NullObj THEN players
        ELSE IF IsWinnerStroke(ending.strokeType)
        THEN [players EXCEPT ![ending.finalPlayer].stats.winners = @ + 1]
        ELSE IF IsUnforcedStroke(ending.strokeType)
        THEN [players EXCEPT ![ending.finalPlayer].stats.unforcedErrors = @ + 1]
        ELSE players

\* both players' stats set to zero, then every record of the history folded in
RECURSIVE ReplayStats(_, _)
ReplayStats(players, history) ==
    IF history = <<>> THEN players
    ELSE ReplayStats(updatePointStats(updateServeStats(players, Head(history)),
                                      Head(history)),
                     Tail(history))

ResetStats(players) ==
    [p \in 1..2 |-> [players[p] EXCEPT !.stats = ZeroStats]]

-----------------------------------------------------------------------------
(* The stored list *)

\* the computed property `winner`: the side with more won sets, else player 2
ComputedWinner(m) ==
    IF m = NoMatch \/ ~m.matchComplete THEN ""
    ELSE IF CountWon(m.players[1].sets) > CountWon(m.players[2].sets)
         THEN m.players[1].name
         ELSE m.players[2].name

getCurrentSetScores(m) ==
    [i \in 1..Len(m.setScores) |->
        [p1 |-> m.setScores[i].p1Games, p2 |-> m.setScores[i].p2Games]]
    \o (IF m.players[1].games > 0 \/ m.players[2].games > 0
        THEN <<[p1 |-> m.players[1].games, p2 |-> m.players[2].games]>>
        ELSE <<>>)
\* a copy that carries the restore state of a complete match too
StoredCopyKeepsState(m) ==
    [id |-> m.id,
     player1 |-> m.players[1].name,
     player2 |-> m.players[2].name,
     format |-> m.matchFormat,
     isInProgress |-> ~m.matchComplete,
     finalSets |-> IF m.matchComplete THEN m.setScores ELSE getCurrentSetScores(m),
     winner |-> IF m.matchComplete THEN ComputedWinner(m) ELSE Null,
     restoreState |->
        [currentSet |-> m.currentSet,
         server |-> m.server,
         gameStartServer |-> m.gameStartServer,
         players |-> m.players,
         setScores |-> m.setScores,
         pointHistory |-> m.pointHistory,
         gameComments |-> m.gameComments]]

StoredCopy(m) ==
    [id |-> m.id,
     player1 |-> m.players[1].name,
     player2 |-> m.players[2].name,
     format |-> m.matchFormat,
     isInProgress |-> ~m.matchComplete,
     finalSets |-> IF m.matchComplete THEN m.setScores ELSE getCurrentSetScores(m),
     winner |-> IF m.matchComplete THEN ComputedWinner(m) ELSE Null,
     restoreState |->
        IF m.matchComplete THEN NullObj
        ELSE [currentSet |-> m.currentSet,
              server |-> m.server,
              gameStartServer |-> m.gameStartServer,
              players |-> m.players,
              setScores |-> m.setScores,
              pointHistory |-> m.pointHistory,
              gameComments |-> m.gameComments]]

\* findIndex(m => m.id === id), 0 when there is none
RECURSIVE FindIndexFrom(_, _, _)
FindIndexFrom(ms, id, k) ==
    IF k > Len(ms) THEN 0
    ELSE IF ms[k].id = id THEN k
    ELSE FindIndexFrom(ms, id, k + 1)

FindIndex(ms, id) == FindIndexFrom(ms, id, 1)

\* saveCurrentMatch without the cut to the first 50
saveCurrentMatchUncut(ms, m) ==
    IF m = NoMatch THEN ms
    ELSE LET copy == StoredCopy(m)
             idx  == FindIndex(ms, copy.id)
         IN  IF idx > 0 THEN [ms EXCEPT ![idx] = copy] ELSE <<copy>> \o ms

\* the list after saveCurrentMatch (and saveMatches, which writes its first 50)
saveCurrentMatch(ms, m) ==
    IF m = NoMatch THEN ms
    ELSE LET copy == StoredCopy(m)
             idx  == FindIndex(ms, copy.id)
             put  == IF idx > 0 THEN [ms EXCEPT ![idx] = copy]
                     ELSE <<copy>> \o ms
         IN  IF Len(put) > MaxStored THEN SubSeq(put, 1, MaxStored) ELSE put

-----------------------------------------------------------------------------
(* The point ledger *)

\* finalisePoint without its updatePointStats call
foldPointServeOnly(players, pointRecord) ==
    updateServeStats(players, pointRecord)

\* the stats after finalisePoint's two update calls for the new record
foldPoint(players, pointRecord) ==
    updatePointStats(updateServeStats(players, pointRecord), pointRecord)

\* finalisePoint past its guard: the match with the point applied
applyPoint(m, winner, serveData, pointEnding, pointType, comment) ==
    LET before == [currentSet |-> m.currentSet,
                   server |-> m.server,
                   gameStartServer |-> m.gameStartServer,
                   setScores |-> m.setScores,
                   players |-> m.players]
        pointRecord == [winner |-> winner,
                        server |-> m.server,
                        serveData |-> serveData,
                        pointEnding |-> pointEnding,
                        pointType |-> pointType,
                        comment |-> comment,
                        gameNumber |-> m.players[1].games + m.players[2].games + 1,
                        setNumber |-> m.currentSet + 1,
                        before |-> before]
        \* push, fold the stats, add the point
        folded == foldPoint(m.players, pointRecord)
        m1 == [m EXCEPT
                 !.pointHistory = Append(@, pointRecord),
                 !.players = [folded EXCEPT ![winner].points = Incr(@)]]
        \* game won: count it, reset the points, alternate the server
        nextStart == IF m1.gameStartServer = 1 THEN 2 ELSE 1
        m2 == [m1 EXCEPT
                 !.players = [@ EXCEPT ![winner].games = @ + 1,
                                       ![1].points = Num(0),
                                       ![2].points = Num(0)],
                 !.gameStartServer = nextStart,
                 !.server = nextStart]
        \* set won: record it, award it, reset the games, advance
        m3 == [m2 EXCEPT
                 !.setScores = SetAt(@, m2.currentSet,
                                     [p1Games |-> m2.players[1].games,
                                      p2Games |-> m2.players[2].games]),
                 !.players = [@ EXCEPT
                                ![winner].sets = SetAt(@, m2.currentSet, 1),
                                ![1].games = 0,
                                ![2].games = 0],
                 !.currentSet = @ + 1,
                 !.server = m2.gameStartServer]
        \* match won
        m4 == [m3 EXCEPT
                 !.matchComplete = TRUE,
                 !.winner = m3.players[winner].name,
                 !.finalSets = m3.setScores,
                 !.isInProgress = FALSE]
    IN  IF ~checkGameWin(m1, winner) THEN m1
        ELSE IF ~checkSetWin(m2, winner) THEN m2
        ELSE IF ~checkMatchWin(m3, winner) THEN m3
        ELSE m4

\* finalisePoint without the matchComplete guard
finalisePointAlways(m, winner, serveData, pointEnding, pointType, comment) ==
    IF m = NoMatch THEN m
    ELSE applyPoint(m, winner, serveData, pointEnding, pointType, comment)

\* the match after finalisePoint(winner, serveData, pointEnding, pointType, comment)
finalisePoint(m, winner, serveData, pointEnding, pointType, comment) ==
    IF m = NoMatch \/ m.matchComplete THEN m
    ELSE applyPoint(m, winner, serveData, pointEnding, pointType, comment)

\* a list written after every accepted point
finalisePointStoredAlways(ms, m, m2) ==
    IF m # NoMatch /\ ~m.matchComplete
    THEN saveCurrentMatch(ms, m2)
    ELSE ms

\* the stored list after finalisePoint took m to m2: saved when the point won the match
finalisePointStored(ms, m, m2) ==
    IF m # NoMatch /\ ~m.matchComplete /\ m2.matchComplete
    THEN saveCurrentMatch(ms, m2)
    ELSE ms

\* undoLastPoint taking the oldest record off the history
undoLastPointDropsFirst(m) ==
    IF m = NoMatch \/ m.pointHistory = <<>> THEN m
    ELSE
    LET last == m.pointHistory[Len(m.pointHistory)]
        before == last.before
        rest == Tail(m.pointHistory)
    IN  [m EXCEPT
           !.pointHistory = rest,
           !.currentSet = before.currentSet,
           !.server = before.server,
           !.gameStartServer = before.gameStartServer,
           !.setScores = before.setScores,
           !.sharesStored = FALSE,
           !.players = ReplayStats(ResetStats(before.players), rest),
           !.matchComplete = FALSE,
           !.winner = Null,
           !.finalSets = <<>>]

\* undoLastPoint reopening the match before it looks at the history
undoLastPointReopens(m) ==
    IF m = NoMatch THEN m
    ELSE IF m.pointHistory = <<>>
    THEN [m EXCEPT !.matchComplete = FALSE, !.winner = Null]
    ELSE
    LET last == m.pointHistory[Len(m.pointHistory)]
        before == last.before
        rest == SubSeq(m.pointHistory, 1, Len(m.pointHistory) - 1)
    IN  [m EXCEPT
           !.pointHistory = rest,
           !.currentSet = before.currentSet,
           !.server = before.server,
           !.gameStartServer = before.gameStartServer,
           !.setScores = before.setScores,
           !.sharesStored = FALSE,
           !.players = ReplayStats(ResetStats(before.players), rest),
           !.matchComplete = FALSE,
           !.winner = Null,
           !.finalSets = <<>>]

\* undoLastPoint without the restore of gameStartServer
undoLastPointKeepsStarter(m) ==
    IF m = NoMatch \/ m.pointHistory = <<>> THEN m
    ELSE
    LET last == m.pointHistory[Len(m.pointHistory)]
        before == last.before
        rest == SubSeq(m.pointHistory, 1, Len(m.pointHistory) - 1)
    IN  [m EXCEPT
           !.pointHistory = rest,
           !.currentSet = before.currentSet,
           !.server = before.server,
           !.setScores = before.setScores,
           !.sharesStored = FALSE,
           !.players = ReplayStats(ResetStats(before.players), rest),
           !.matchComplete = FALSE,
           !.winner = Null,
           !.finalSets = <<>>]

\* undoLastPoint that leaves the winner field as it is
undoLastPointKeepsWinner(m) ==
    IF m = NoMatch \/ m.pointHistory = <<>> THEN m
    ELSE
    LET last == m.pointHistory[Len(m.pointHistory)]
        before == last.before
        rest == SubSeq(m.pointHistory, 1, Len(m.pointHistory) - 1)
    IN  [m EXCEPT
           !.pointHistory = rest,
           !.currentSet = before.currentSet,
           !.server = before.server,
           !.gameStartServer = before.gameStartServer,
           !.setScores = before.setScores,
           !.sharesStored = FALSE,
           !.players = ReplayStats(ResetStats(before.players), rest),
           !.matchComplete = FALSE,
           !.finalSets = <<>>]

\* the match after undoLastPoint()
undoLastPoint(m) ==
    IF m = NoMatch \/ m.pointHistory = <<>> THEN m
    ELSE
    LET last == m.pointHistory[Len(m.pointHistory)]
        before == last.before
        rest == SubSeq(m.pointHistory, 1, Len(m.pointHistory) - 1)
    IN  [m EXCEPT
           !.pointHistory = rest,
           !.currentSet = before.currentSet,
           !.server = before.server,
           !.gameStartServer = before.gameStartServer,
           !.setScores = before.setScores,
           !.sharesStored = FALSE,
           !.players = ReplayStats(ResetStats(before.players), rest),
           !.matchComplete = FALSE,
           !.winner = Null,
           !.finalSets = <<>>]

-----------------------------------------------------------------------------
(* Building the state from entered scores *)

\* an entered score sheet: five {p1, p2} slots
Slot(a, b) == [p1 |-> a, p2 |-> b]

\* The loop of calculateMatchStateFromScores from slot i (0-based) on, over
\* acc = [setScores, sets1, sets2, currentSet, games1, games2].
RECURSIVE JoinScan(_, _, _, _)
JoinScan(sheet, fmt, i, acc) ==
    IF i >= (IF Len(sheet) < fmt THEN Len(sheet) ELSE fmt) THEN acc
    ELSE LET set == sheet[i + 1]
         IN  IF set.p1 = 0 /\ set.p2 = 0 THEN acc
             ELSE IF isSetComplete(set.p1, set.p2)
             THEN JoinScan(sheet, fmt, i + 1,
                    [acc EXCEPT
                       !.setScores = Append(@, [p1Games |-> set.p1, p2Games |-> set.p2]),
                       !.sets1 = IF set.p1 > set.p2 THEN SetAt(@, i, 1) ELSE @,
                       !.sets2 = IF set.p1 > set.p2 THEN @ ELSE SetAt(@, i, 1),
                       !.currentSet = @ + 1])
             ELSE [acc EXCEPT !.games1 = set.p1, !.games2 = set.p2]

calculateMatchStateFromScores(m, form) ==
    LET r == JoinScan(form.setScores, form.matchFormat, 0,
                      [setScores |-> m.setScores,
                       sets1 |-> m.players[1].sets, sets2 |-> m.players[2].sets,
                       currentSet |-> 0,
                       games1 |-> m.players[1].games, games2 |-> m.players[2].games])
        m1 == [m EXCEPT
                 !.setScores = r.setScores,
                 !.players = [@ EXCEPT ![1].sets = r.sets1, ![2].sets = r.sets2,
                                       ![1].games = r.games1, ![2].games = r.games2],
                 !.currentSet = r.currentSet]
        setsWon1 == CountWon(m1.players[1].sets)
        setsWon2 == CountWon(m1.players[2].sets)
        needed == Needed(m1.matchFormat)
    IN  IF setsWon1 >= needed \/ setsWon2 >= needed
        THEN [m1 EXCEPT
                !.matchComplete = TRUE,
                !.winner = IF setsWon1 > setsWon2 THEN m1.players[1].name
                           ELSE m1.players[2].name]
        ELSE m1

\* startJoinMatch: createJoinMatch, then calculateMatchStateFromScores
startJoinMatch(id, form) ==
    calculateMatchStateFromScores(createJoinMatch(id, form), form)

\* the loop of applyFastForward passing over an empty row instead of stopping
RECURSIVE FastForwardScanSkipsEmpty(_, _, _, _)
FastForwardScanSkipsEmpty(sheet, fmt, i, acc) ==
    IF i >= fmt THEN acc
    ELSE LET setScore == sheet[i + 1]
         IN  IF setScore.p1 > 0 \/ setScore.p2 > 0
             THEN IF isSetComplete(setScore.p1, setScore.p2)
                  THEN FastForwardScanSkipsEmpty(sheet, fmt, i + 1,
                         [acc EXCEPT
                            !.setScores = Append(@, [p1Games |-> setScore.p1,
                                                     p2Games |-> setScore.p2]),
                            !.sets1 = IF setScore.p1 > setScore.p2
                                      THEN SetAt(@, i, 1) ELSE @,
                            !.sets2 = IF setScore.p2 > setScore.p1
                                      THEN SetAt(@, i, 1) ELSE @,
                            !.currentSet = i + 1])
                  ELSE [acc EXCEPT !.games1 = setScore.p1,
                                   !.games2 = setScore.p2,
                                   !.currentSet = i]
             ELSE FastForwardScanSkipsEmpty(sheet, fmt, i + 1, acc)

\* The loop of applyFastForward from slot i (0-based) on.
RECURSIVE FastForwardScan(_, _, _, _)
FastForwardScan(sheet, fmt, i, acc) ==
    IF i >= fmt THEN acc
    ELSE LET setScore == sheet[i + 1]
         IN  IF setScore.p1 > 0 \/ setScore.p2 > 0
             THEN IF isSetComplete(setScore.p1, setScore.p2)
                  THEN FastForwardScan(sheet, fmt, i + 1,
                         [acc EXCEPT
                            !.setScores = Append(@, [p1Games |-> setScore.p1,
                                                     p2Games |-> setScore.p2]),
                            !.sets1 = IF setScore.p1 > setScore.p2
                                      THEN SetAt(@, i, 1) ELSE @,
                            !.sets2 = IF setScore.p2 > setScore.p1
                                      THEN SetAt(@, i, 1) ELSE @,
                            !.currentSet = i + 1])
                  ELSE [acc EXCEPT !.games1 = setScore.p1,
                                   !.games2 = setScore.p2,
                                   !.currentSet = i]
             ELSE acc

\* applyFastForward starting the history afresh
applyFastForwardClearsHistory(m, form) ==
    IF m = NoMatch THEN m
    ELSE
    LET r == FastForwardScan(form.setScores, m.matchFormat, 0,
                             [setScores |-> <<>>, sets1 |-> NoSets, sets2 |-> NoSets,
                              currentSet |-> 0, games1 |-> 0, games2 |-> 0])
        m1 == [m EXCEPT
                 !.setScores = r.setScores,
                 !.sharesStored = FALSE,
                 !.pointHistory = <<>>,
                 !.players = [@ EXCEPT
                                ![1].sets = r.sets1, ![2].sets = r.sets2,
                                ![1].games = r.games1, ![2].games = r.games2,
                                ![1].points = form.currentPoints[1],
                                ![2].points = form.currentPoints[2]],
                 !.currentSet = r.currentSet,
                 !.server = form.currentServer]
        setsWon1 == CountWon(m1.players[1].sets)
        setsWon2 == CountWon(m1.players[2].sets)
        needed == Needed(m1.matchFormat)
    IN  IF setsWon1 >= needed \/ setsWon2 >= needed
        THEN [m1 EXCEPT
                !.matchComplete = TRUE,
                !.winner = IF setsWon1 > setsWon2 THEN m1.players[1].name
                           ELSE m1.players[2].name,
                !.finalSets = m1.setScores,
                !.isInProgress = FALSE]
        ELSE m1

\* the match after applyFastForward() with the dialog holding `form`
applyFastForward(m, form) ==
    IF m = NoMatch THEN m
    ELSE
    LET r == FastForwardScan(form.setScores, m.matchFormat, 0,
                             [setScores |-> <<>>, sets1 |-> NoSets, sets2 |-> NoSets,
                              currentSet |-> 0, games1 |-> 0, games2 |-> 0])
        m1 == [m EXCEPT
                 !.setScores = r.setScores,
                 !.sharesStored = FALSE,
                 !.players = [@ EXCEPT
                                ![1].sets = r.sets1, ![2].sets = r.sets2,
                                ![1].games = r.games1, ![2].games = r.games2,
                                ![1].points = form.currentPoints[1],
                                ![2].points = form.currentPoints[2]],
                 !.currentSet = r.currentSet,
                 !.server = form.currentServer]
        setsWon1 == CountWon(m1.players[1].sets)
        setsWon2 == CountWon(m1.players[2].sets)
        needed == Needed(m1.matchFormat)
    IN  IF setsWon1 >= needed \/ setsWon2 >= needed
        THEN [m1 EXCEPT
                !.matchComplete = TRUE,
                !.winner = IF setsWon1 > setsWon2 THEN m1.players[1].name
                           ELSE m1.players[2].name,
                !.finalSets = m1.setScores,
                !.isInProgress = FALSE]
        ELSE m1

\* applyFastForward saves the match when the entered scores complete it
applyFastForwardStored(ms, m, m2) ==
    IF m # NoMatch
       /\ (CountWon(m2.players[1].sets) >= Needed(m2.matchFormat)
           \/ CountWon(m2.players[2].sets) >= Needed(m2.matchFormat))
    THEN saveCurrentMatch(ms, m2)
    ELSE ms

\* the loop of confirmEndMatch giving a level set to both sides
RECURSIVE EndMatchScanLevelToBoth(_, _, _, _)
EndMatchScanLevelToBoth(sheet, fmt, i, acc) ==
    IF i >= fmt THEN acc
    ELSE LET setScore == sheet[i + 1]
         IN  EndMatchScanLevelToBoth(sheet, fmt, i + 1,
               IF setScore.p1 > 0 \/ setScore.p2 > 0
               THEN [acc EXCEPT
                       !.setScores = Append(@, [p1Games |-> setScore.p1,
                                                p2Games |-> setScore.p2]),
                       !.sets1 = IF setScore.p1 >= setScore.p2
                                 THEN SetAt(@, i, 1) ELSE @,
                       !.sets2 = IF setScore.p2 >= setScore.p1
                                 THEN SetAt(@, i, 1) ELSE @]
               ELSE acc)

\* The loop of confirmEndMatch from slot i (0-based) on.
RECURSIVE EndMatchScan(_, _, _, _)
EndMatchScan(sheet, fmt, i, acc) ==
    IF i >= fmt THEN acc
    ELSE LET setScore == sheet[i + 1]
         IN  EndMatchScan(sheet, fmt, i + 1,
               IF setScore.p1 > 0 \/ setScore.p2 > 0
               THEN [acc EXCEPT
                       !.setScores = Append(@, [p1Games |-> setScore.p1,
                                                p2Games |-> setScore.p2]),
                       !.sets1 = IF setScore.p1 > setScore.p2
                                 THEN SetAt(@, i, 1) ELSE @,
                       !.sets2 = IF setScore.p2 > setScore.p1
                                 THEN SetAt(@, i, 1) ELSE @]
               ELSE acc)

\* confirmEndMatch naming player 1 whichever side was selected
confirmEndMatchNamesFirst(m, result, sheet) ==
    IF m = NoMatch THEN m
    ELSE
    LET r == EndMatchScan(sheet, m.matchFormat, 0,
                          [setScores |-> <<>>, sets1 |-> NoSets, sets2 |-> NoSets])
    IN  [m EXCEPT
           !.setScores = r.setScores,
           !.sharesStored = FALSE,
           !.players = [@ EXCEPT ![1].sets = r.sets1, ![2].sets = r.sets2],
           !.currentSet = Len(r.setScores),
           !.matchComplete = TRUE,
           !.winner = IF result = 0 THEN "No Result" ELSE m.players[1].name,
           !.finalSets = r.setScores,
           !.isInProgress = FALSE]

\* the match after confirmEndMatch() with result `result` (0 for no result) selected
confirmEndMatch(m, result, sheet) ==
    IF m = NoMatch THEN m
    ELSE
    LET r == EndMatchScan(sheet, m.matchFormat, 0,
                          [setScores |-> <<>>, sets1 |-> NoSets, sets2 |-> NoSets])
    IN  [m EXCEPT
           !.setScores = r.setScores,
           !.sharesStored = FALSE,
           !.players = [@ EXCEPT ![1].sets = r.sets1, ![2].sets = r.sets2],
           !.currentSet = Len(r.setScores),
           !.matchComplete = TRUE,
           !.winner = IF result = 0 THEN "No Result" ELSE m.players[result].name,
           !.finalSets = r.setScores,
           !.isInProgress = FALSE]

\* changeMatchFormat that keeps every set score
changeMatchFormatKeepsSets(m, fmt) ==
    IF m = NoMatch THEN m
    ELSE
    LET m1 == [m EXCEPT !.matchFormat = fmt]
    IN  IF m1.currentSet >= m1.matchFormat
        THEN [m1 EXCEPT !.matchComplete = TRUE]
        ELSE m1

\* the match after the format radio sets matchFormat to fmt and changeMatchFormat() runs
changeMatchFormat(m, fmt) ==
    IF m = NoMatch THEN m
    ELSE
    LET m1 == [m EXCEPT !.matchFormat = fmt]
        m2 == IF Len(m1.setScores) > m1.matchFormat
              THEN [m1 EXCEPT !.setScores = SubSeq(@, 1, m1.matchFormat)]
              ELSE m1
    IN  IF m2.currentSet >= m2.matchFormat
        THEN [m2 EXCEPT !.matchComplete = TRUE]
        ELSE m2

-----------------------------------------------------------------------------
(* Opening a stored match *)

\* set.p1 > set.p2 on a stored set: false when the fields are undefined
StoredP1Ahead(set) ==
    IF "p1" \in DOMAIN set /\ "p2" \in DOMAIN set THEN set.p1 > set.p2 ELSE FALSE

\* the sets arrays after stored.finalSets.forEach(...) from index idx (0-based) on
RECURSIVE MarkFinalSets(_, _, _)
MarkFinalSets(finalSets, idx, acc) ==
    IF idx >= Len(finalSets) THEN acc
    ELSE MarkFinalSets(finalSets, idx + 1,
           IF StoredP1Ahead(finalSets[idx + 1])
           THEN [acc EXCEPT !.sets1 = SetAt(@, idx, 1)]
           ELSE [acc EXCEPT !.sets2 = SetAt(@, idx, 1)])

\* openMatch that restores the stored players without replaying the history
openMatchNoReplay(stored, fmt, firstServer) ==
    LET base == createMatch(stored.id, fmt, firstServer)
    IN  IF ~stored.isInProgress \/ stored.restoreState = NullObj
        THEN LET r == MarkFinalSets(stored.finalSets, 0,
                                    [sets1 |-> NoSets, sets2 |-> NoSets])
             IN  [base EXCEPT
                    !.players = [@ EXCEPT
                                   ![1].name = stored.player1,
                                   ![2].name = stored.player2,
                                   ![1].sets = r.sets1,
                                   ![2].sets = r.sets2],
                    !.matchFormat = stored.format,
                    !.setScores = stored.finalSets,
                    !.sharesStored = TRUE,
                    !.matchComplete = TRUE,
                    !.winner = stored.winner,
                    !.currentSet = Len(stored.finalSets)]
        ELSE LET state == stored.restoreState
             IN  [base EXCEPT
                    !.matchFormat = stored.format,
                    !.currentSet = state.currentSet,
                    !.server = state.server,
                    !.gameStartServer = state.gameStartServer,
                    !.setScores = state.setScores,
                    !.players = ResetStats(state.players),
                    !.pointHistory = state.pointHistory,
                    !.gameComments = state.gameComments]

\* the match after openMatch(stored); the setup form holds fmt and firstServer
openMatch(stored, fmt, firstServer) ==
    LET base == createMatch(stored.id, fmt, firstServer)
    IN  IF ~stored.isInProgress \/ stored.restoreState = NullObj
        THEN LET r == MarkFinalSets(stored.finalSets, 0,
                                    [sets1 |-> NoSets, sets2 |-> NoSets])
             IN  [base EXCEPT
                    !.players = [@ EXCEPT
                                   ![1].name = stored.player1,
                                   ![2].name = stored.player2,
                                   ![1].sets = r.sets1,
                                   ![2].sets = r.sets2],
                    !.matchFormat = stored.format,
                    !.setScores = stored.finalSets,
                    !.sharesStored = TRUE,
                    !.matchComplete = TRUE,
                    !.winner = stored.winner,
                    !.currentSet = Len(stored.finalSets)]
        ELSE LET state == stored.restoreState
             IN  [base EXCEPT
                    !.matchFormat = stored.format,
                    !.currentSet = state.currentSet,
                    !.server = state.server,
                    !.gameStartServer = state.gameStartServer,
                    !.setScores = state.setScores,
                    !.players = ReplayStats(ResetStats(state.players),
                                            state.pointHistory),
                    !.pointHistory = state.pointHistory,
                    !.gameComments = state.gameComments]

-----------------------------------------------------------------------------
(* Inputs *)

Z == Slot(0, 0)

\* what the join form can hold when Join Match is pressed
JoinForms ==
    { [matchFormat |-> 3, setScores |-> <<Slot(6, 4), Slot(3, 3), Z, Z, Z>>,
       currentPoints |-> <<Str(2), Str(1)>>, currentServer |-> 2],
      [matchFormat |-> 3, setScores |-> <<Slot(6, 4), Slot(5, 4), Z, Z, Z>>,
       currentPoints |-> <<Str(3), Num(0)>>, currentServer |-> 1],
      [matchFormat |-> 3, setScores |-> <<Slot(4, 6), Slot(5, 6), Z, Z, Z>>,
       currentPoints |-> <<Str(3), Str(4)>>, currentServer |-> 2],
      [matchFormat |-> 5, setScores |-> <<Slot(6, 4), Slot(5, 7), Slot(5, 4), Z, Z>>,
       currentPoints |-> <<Str(3), Str(2)>>, currentServer |-> 1],
      [matchFormat |-> 3, setScores |-> <<Slot(6, 4), Slot(6, 4), Z, Z, Z>>,
       currentPoints |-> <<Num(0), Num(0)>>, currentServer |-> 1],
      [matchFormat |-> 3, setScores |-> <<Slot(6, 6), Z, Z, Z, Z>>,
       currentPoints |-> <<Str(3), Str(3)>>, currentServer |-> 1] }

\* what the fast forward dialog can hold when Update Match is pressed
FastForwardForms ==
    { [setScores |-> <<Slot(6, 4), Slot(5, 4), Z, Z, Z>>,
       currentPoints |-> <<Str(3), Str(0)>>, currentServer |-> 2],
      [setScores |-> <<Slot(4, 6), Slot(2, 6), Z, Z, Z>>,
       currentPoints |-> <<Num(0), Num(0)>>, currentServer |-> 1],
      [setScores |-> <<Z, Z, Z, Z, Z>>,
       currentPoints |-> <<Num(0), Str(3)>>, currentServer |-> 1] }

\* what the end match dialog can hold when End Match is pressed
EndMatchSheets ==
    { <<Z, Z, Z, Z, Z>>,
      <<Slot(3, 6), Z, Slot(1, 1), Z, Z>> }
EndMatchResults == {0, 1, 2}

\* the calls of finalisePoint the point-entry dialog makes in a match served by `server`
Call(winner, first, second, ending, pointType) ==
    [winner |-> winner,
     serveData |-> [firstServe |-> first, secondServe |-> second],
     pointEnding |-> ending, pointType |-> pointType, comment |-> ""]
Ending(player, stroke) == [finalPlayer |-> player, strokeType |-> stroke]

PointCalls(server) ==
    { \* selectFirstServe('ace')
      Call(server, "ace", Null, NullObj, "short"),
      \* selectSecondServe('double-fault')
      Call(Opponent(server), "out", "out", NullObj, "short"),
      \* selectStroke: the final player's winner, or the opponent's point on an error
      Call(1, "in", Null, Ending(1, "fh-winner"), "long"),
      Call(2, "out", "in", Ending(1, "bh-unforced"), "") }

-----------------------------------------------------------------------------
(* The stored list found at start-up: records earlier sessions saved *)

ServeIn == [firstServe |-> "in", secondServe |-> Null]

\* saved by Go Home in a new best-of-3 match after one point, a forced error
SeedLive ==
    StoredCopy(finalisePoint(createMatch(1, 3, 1), 1, ServeIn,
                             Ending(2, "fh-forced"), "medium", ""))

\* saved by Go Home right after joining at 6-4 5-4, 40-0
SeedJoined ==
    StoredCopy(startJoinMatch(2,
        [matchFormat |-> 3, setScores |-> <<Slot(6, 4), Slot(5, 4), Z, Z, Z>>,
         currentPoints |-> <<Str(3), Num(0)>>, currentServer |-> 1]))

\* saved by the point that won that match 6-4 6-4
SeedWon ==
    StoredCopy(finalisePoint(
        startJoinMatch(3,
            [matchFormat |-> 3, setScores |-> <<Slot(6, 4), Slot(5, 4), Z, Z, Z>>,
             currentPoints |-> <<Str(3), Num(0)>>, currentServer |-> 1]),
        1, ServeIn, NullObj, "medium", ""))

StoredAtStart == <<SeedWon, SeedJoined, SeedLive>>

\* finalPlayer: null, no final-shot player chosen
NoPlayer == 0

\* the point-entry dialog as data() builds it
ClosedDialog ==
    [visible |-> FALSE, firstServe |-> "", secondServe |-> "",
     finalPlayer |-> NoPlayer, strokeType |-> "", pointType |-> "", comment |-> ""]

\* the game-complete prompt as data() builds it
ClosedPrompt == [visible |-> FALSE, comment |-> ""]

\* gameComments: {} of createMatch
NoComments == {}

\* no game has been won by a recorded point
NoGame == [setNumber |-> 0, gameNumber |-> 0]

\* the prompts and dialogs as data() builds them, no timer set
PromptsAtRest ==
    /\ gameCommentModal = ClosedPrompt
    /\ fastForwardModal = [visible |-> FALSE]
    /\ endMatchModal = [visible |-> FALSE]
    /\ timers = <<>>
    /\ gameComments = NoComments
    /\ gameWon = NoGame

\* manual corrections by kind; fast forward of a finished match counts apart
NoOverrides == [fastForward |-> 0, lateForward |-> 0, endMatch |-> 0, format |-> 0]
Total(o) == o.fastForward + o.lateForward + o.endMatch + o.format

-----------------------------------------------------------------------------
(* Actions: one per method of the component *)

Op(name, early) == [name |-> name, early |-> early]

Init ==
    /\ stage = "review"
    /\ match = NoMatch
    /\ matches = StoredAtStart
    /\ nextId = Len(StoredAtStart) + 1
    /\ overrides = NoOverrides
    /\ lastOp = Op("mounted", FALSE)
    /\ serveModal = ClosedDialog
    /\ PromptsAtRest

NewMatchScreen ==
    /\ stage = "review"
    /\ stage' = "setup"
    /\ lastOp' = Op("newMatchScreen", FALSE)
    /\ UNCHANGED <<match, matches, nextId, overrides, serveModal, prompts>>

\* a click on a stored match; the setup form's first server is whatever it was left at
OpenMatch ==
    /\ stage = "review"
    /\ \E k \in 1..Len(matches), firstServer \in Sides :
          match' = openMatch(matches[k], 3, firstServer)
    /\ stage' = "match"
    /\ lastOp' = Op("openMatch", FALSE)
    /\ UNCHANGED <<matches, nextId, overrides, serveModal, prompts>>

StartMatch ==
    /\ stage = "setup"
    /\ \E fmt \in Formats, firstServer \in Sides :
          match' = createMatch(nextId, fmt, firstServer)
    /\ nextId' = nextId + 1
    /\ stage' = "match"
    /\ lastOp' = Op("startMatch", FALSE)
    /\ UNCHANGED <<matches, overrides, serveModal, prompts>>

StartJoinMatch ==
    /\ stage = "setup"
    /\ \E form \in JoinForms : match' = startJoinMatch(nextId, form)
    /\ nextId' = nextId + 1
    /\ stage' = "match"
    /\ lastOp' = Op("startJoinMatch", FALSE)
    /\ UNCHANGED <<matches, overrides, serveModal, prompts>>

FinalisePoint ==
    /\ stage = "match"
    /\ match.matchComplete \/ Len(match.pointHistory) < MaxHist
    /\ \E c \in PointCalls(match.server) :
          LET m2 == finalisePoint(match, c.winner, c.serveData, c.pointEnding,
                                  c.pointType, c.comment)
          IN  /\ match' = m2
              /\ matches' = finalisePointStored(matches, match, m2)
    /\ lastOp' = Op("finalisePoint", match.matchComplete)
    /\ UNCHANGED <<stage, nextId, overrides, serveModal, prompts>>

UndoLastPoint ==
    /\ stage = "match"
    /\ match' = undoLastPoint(match)
    /\ lastOp' = Op("undoLastPoint", match.pointHistory = <<>>)
    /\ UNCHANGED <<stage, matches, nextId, overrides, serveModal, prompts>>

ApplyFastForward ==
    /\ stage = "match"
    /\ Total(overrides) < MaxOverrides
    /\ \E form \in FastForwardForms :
          LET m2 == applyFastForward(match, form)
          IN  /\ match' = m2
              /\ matches' = applyFastForwardStored(matches, match, m2)
    /\ overrides' = IF match.matchComplete
                    THEN [overrides EXCEPT !.lateForward = @ + 1]
                    ELSE [overrides EXCEPT !.fastForward = @ + 1]
    /\ lastOp' = Op("applyFastForward", FALSE)
    /\ UNCHANGED <<stage, nextId, serveModal, prompts>>

ConfirmEndMatch ==
    /\ stage = "match"
    /\ Total(overrides) < MaxOverrides
    /\ \E result \in EndMatchResults, sheet \in EndMatchSheets :
          LET m2 == confirmEndMatch(match, result, sheet)
          IN  /\ match' = m2
              /\ matches' = saveCurrentMatch(matches, m2)
    /\ overrides' = [overrides EXCEPT !.endMatch = @ + 1]
    /\ lastOp' = Op("confirmEndMatch", FALSE)
    /\ UNCHANGED <<stage, nextId, serveModal, prompts>>

\* the format radio: v-model sets matchFormat, @change calls changeMatchFormat
ChangeMatchFormat ==
    /\ stage = "match"
    /\ Total(overrides) < MaxOverrides
    /\ \E fmt \in Formats \ {match.matchFormat} :
          LET m2 == changeMatchFormat(match, fmt)
              idx == FindIndex(matches, match.id)
          IN  /\ match' = m2
              /\ matches' = IF match.sharesStored /\ idx > 0
                            THEN [matches EXCEPT ![idx].finalSets = m2.setScores]
                            ELSE matches
    /\ overrides' = [overrides EXCEPT !.format = @ + 1]
    /\ lastOp' = Op("changeMatchFormat", FALSE)
    /\ UNCHANGED <<stage, nextId, serveModal, prompts>>

Next ==
    \/ NewMatchScreen
    \/ OpenMatch
    \/ StartMatch
    \/ StartJoinMatch
    \/ FinalisePoint
    \/ UndoLastPoint
    \/ ApplyFastForward
    \/ ConfirmEndMatch
    \/ ChangeMatchFormat

Spec == Init /\ [][Next]_vars

-----------------------------------------------------------------------------
(* A match played from the first point by the quick winner buttons alone.    *)
(* Whoever takes the first point of a set takes every point of that set, so  *)
(* each set is won 6-0 by either side and every final score line is played.  *)

InitPlay ==
    /\ stage = "setup"
    /\ match = NoMatch
    /\ matches = <<>>
    /\ nextId = 1
    /\ overrides = NoOverrides
    /\ lastOp = Op("newMatchScreen", FALSE)
    /\ serveModal = ClosedDialog
    /\ PromptsAtRest

\* who may win the next point of the set being played
SetLeaders(m) ==
    LET ahead(p) == \/ m.players[p].games > 0
                    \/ ToNum(m.players[p].points) > 0
    IN  IF \E p \in Sides : ahead(p) THEN {p \in Sides : ahead(p)} ELSE Sides

\* quickFinalizePoint(winner)
QuickFinalizePoint ==
    /\ stage = "match"
    /\ ~match.matchComplete
    /\ \E winner \in SetLeaders(match) :
          LET m2 == finalisePoint(match, winner, ServeIn, NullObj, "medium", "")
          IN  /\ match' = m2
              /\ matches' = finalisePointStored(matches, match, m2)
    /\ lastOp' = Op("finalisePoint", FALSE)
    /\ UNCHANGED <<stage, nextId, overrides, serveModal, prompts>>

NextPlay ==
    \/ StartMatch
    \/ QuickFinalizePoint

SpecPlay == InitPlay /\ [][NextPlay]_vars

-----------------------------------------------------------------------------
(* Properties *)

Live == match # NoMatch /\ ~match.matchComplete

\* the fields a point can touch
Score(m) ==
    [currentSet |-> m.currentSet, server |-> m.server,
     gameStartServer |-> m.gameStartServer, setScores |-> m.setScores,
     players |-> m.players, pointHistory |-> m.pointHistory,
     matchComplete |-> m.matchComplete, winner |-> m.winner]

Recorded(m, c) ==
    finalisePoint(m, c.winner, c.serveData, c.pointEnding, c.pointType, "")

\* C1: from every reachable in-progress state, recording any point and then
\* undoing it gives back the current set, server, game-start server, set
\* scores, both players (sets, games, points, stats), the history, the
\* completion flag and the winner exactly as they were.
UndoInvertsRecord ==
    Live => \A c \in PointCalls(match.server) :
                Score(undoLastPoint(Recorded(match, c))) = Score(match)

\* an undo has just acted and left a state one point away from a won match
UndoInvertsRecordWitness ==
    /\ Live
    /\ lastOp = Op("undoLastPoint", FALSE)
    /\ \E c \in PointCalls(match.server) : Recorded(match, c).matchComplete

\* C2: each side's nine counters always equal the fold of the whole point
\* history from zero.
StatsAreFoldOfHistory ==
    match # NoMatch =>
        LET replayed == ReplayStats(ResetStats(match.players), match.pointHistory)
        IN  \A p \in Sides : match.players[p].stats = replayed[p].stats

\* two recorded points, with a double fault and a clean winner among them
StatsAreFoldOfHistoryWitness ==
    /\ match # NoMatch
    /\ Len(match.pointHistory) = 2
    /\ lastOp = Op("finalisePoint", FALSE)
    /\ \E p \in Sides : match.players[p].stats.doubleFaults > 0
    /\ \E p \in Sides : match.players[p].stats.winners > 0

SetsDecide(m) ==
    \E p \in Sides : CountWon(m.players[p].sets) >= (m.matchFormat + 1) \div 2

\* C3 as stated: in every reachable state the match is complete exactly when
\* one side's won sets reach ceil(matchFormat / 2).
CompleteIffSetsDecide ==
    match # NoMatch => (match.matchComplete <=> SetsDecide(match))

\* C3: for a match that was not ended by hand, whose format was not changed
\* and that was not fast-forwarded after it finished, the match is complete
\* exactly when one side's won sets reach ceil(matchFormat / 2).
CompleteIffSetsDecideUnlessOverridden ==
    (/\ match # NoMatch
     /\ overrides.endMatch = 0
     /\ overrides.format = 0
     /\ overrides.lateForward = 0)
    => (match.matchComplete <=> SetsDecide(match))

\* a point has just won the match, with no manual correction made
CompleteIffSetsDecideWitness ==
    /\ match # NoMatch
    /\ match.matchComplete
    /\ Total(overrides) = 0
    /\ lastOp = Op("finalisePoint", FALSE)

\* a step in which finalisePoint recorded a point
PointStep ==
    /\ Live
    /\ lastOp' = Op("finalisePoint", FALSE)
    /\ Len(match'.pointHistory) = Len(match.pointHistory) + 1

\* the side that won the point just recorded, and the other side
PointWinner == match'.pointHistory[Len(match'.pointHistory)].winner
PointLoser == Opponent(PointWinner)

\* the point just recorded won its game: 4 or more points, 2 or more ahead
GameJustWon ==
    LET p == ToNum(match.players[PointWinner].points) + 1
        q == ToNum(match.players[PointLoser].points)
    IN  p >= 4 /\ p - q >= 2

\* that game won its set: 6 or more games, 2 or more ahead
SetJustWon ==
    LET g == match.players[PointWinner].games + 1
        h == match.players[PointLoser].games
    IN  GameJustWon /\ g >= 6 /\ g - h >= 2

\* C4: in a match played from newMatch by recordPoint alone, a point completes
\* the match exactly when it gives its winner the 2nd won set of a best-of-3
\* or the 3rd of a best-of-5, and the winner is then that side's name.
MatchEndsOnDecidingSet ==
    [][PointStep =>
        LET target == IF match.matchFormat = 3 THEN 2 ELSE 3
            decides == /\ CountWon(match.players[PointWinner].sets) = target - 1
                       /\ CountWon(match'.players[PointWinner].sets) = target
        IN  /\ match'.matchComplete <=> decides
            /\ match'.matchComplete =>
                   match'.winner = match'.players[PointWinner].name]_vars

\* a best-of-5 won three sets to two, point by point
MatchEndsOnDecidingSetWitness ==
    /\ match # NoMatch
    /\ match.matchComplete
    /\ match.matchFormat = 5
    /\ Len(match.pointHistory) = 120
    /\ \E p \in Sides : /\ CountWon(match.players[p].sets) = 3
                        /\ CountWon(match.players[Opponent(p)].sets) = 2
                        /\ match.winner = match.players[p].name

\* the points of both sides read zero
PointsCleared(m) == \A p \in Sides : ToNum(m.players[p].points) = 0

\* nothing but the point winner's points moved, and they moved by one
OnlyPointAdded ==
    /\ ToNum(match'.players[PointWinner].points)
         = ToNum(match.players[PointWinner].points) + 1
    /\ match'.players[PointLoser].points = match.players[PointLoser].points
    /\ \A p \in Sides : /\ match'.players[p].games = match.players[p].games
                        /\ match'.players[p].sets = match.players[p].sets

\* C5 as stated: a point wins its game exactly when its winner then has 4 or
\* more points and leads by 2 or more; the winner's games then go up by one
\* and both sides' points become 0; otherwise only the winner's points move,
\* by one.
GameAwardedAddsGame ==
    [][PointStep =>
        IF GameJustWon
        THEN /\ match'.players[PointWinner].games
                  = match.players[PointWinner].games + 1
             /\ PointsCleared(match')
        ELSE OnlyPointAdded]_vars

\* C5: a point wins its game exactly when its winner then has 4 or more points
\* and leads by 2 or more; both sides' points then become 0 and the winner's
\* games go up by one, unless the game closes the set, when the raised count
\* is the winner's entry of setScores for that set and both sides' games read
\* 0; otherwise only the winner's points move, by one.
GameAwardedAddsGameOrClosesSet ==
    [][PointStep =>
        IF GameJustWon
        THEN /\ PointsCleared(match')
             /\ IF match'.currentSet = match.currentSet
                THEN /\ match'.players[PointWinner].games
                          = match.players[PointWinner].games + 1
                     /\ match'.players[PointLoser].games
                          = match.players[PointLoser].games
                ELSE LET entry == match'.setScores[match.currentSet + 1]
                         won == IF PointWinner = 1 THEN entry.p1Games
                                ELSE entry.p2Games
                     IN  /\ won = match.players[PointWinner].games + 1
                         /\ \A p \in Sides : match'.players[p].games = 0
        ELSE OnlyPointAdded]_vars

LastBefore(m) == m.pointHistory[Len(m.pointHistory)].before

\* a point has just won a game that closed its set
GameAwardedWitness ==
    /\ match # NoMatch
    /\ lastOp = Op("finalisePoint", FALSE)
    /\ match.pointHistory # <<>>
    /\ PointsCleared(match)
    /\ match.currentSet = LastBefore(match).currentSet + 1
    /\ \A p \in Sides : match.players[p].games = 0

\* C6: a point closes the set exactly when the game it wins gives its winner
\* 6 or more games with a lead of 2 or more; setScores at the old set index
\* then holds both final game counts, the winner's flag at that index is 1,
\* both sides' games are 0 and the set index is one higher; any other point
\* leaves setScores, both sides' flags and the set index alone.
SetClosesOnSixWithLead ==
    [][PointStep =>
        IF SetJustWon
        THEN LET old == match.currentSet
                 final == [p \in Sides |->
                             match.players[p].games
                               + (IF p = PointWinner THEN 1 ELSE 0)]
             IN  /\ Len(match'.setScores) = Len(match.setScores) + 1
                 /\ SubSeq(match'.setScores, 1, Len(match.setScores))
                       = match.setScores
                 /\ match'.setScores[old + 1]
                       = [p1Games |-> final[1], p2Games |-> final[2]]
                 /\ match'.players[PointWinner].sets
                       = SetAt(match.players[PointWinner].sets, old, 1)
                 /\ match'.players[PointLoser].sets
                       = match.players[PointLoser].sets
                 /\ \A p \in Sides : match'.players[p].games = 0
                 /\ match'.currentSet = old + 1
        ELSE /\ match'.setScores = match.setScores
             /\ \A p \in Sides :
                    match'.players[p].sets = match.players[p].sets
             /\ match'.currentSet = match.currentSet]_vars

\* a point has just closed a set that did not end the match
SetClosesWitness ==
    /\ Live
    /\ lastOp = Op("finalisePoint", FALSE)
    /\ match.pointHistory # <<>>
    /\ match.currentSet = LastBefore(match).currentSet + 1
    /\ Len(match.setScores) = Len(LastBefore(match).setScores) + 1

\* C7: the server is always side 1 or side 2; a point that wins its game
\* hands the serve to the other side, any other point leaves it where it was.
ServerAlternatesByGame ==
    /\ [](match # NoMatch => match.server \in Sides)
    /\ [][PointStep =>
            IF GameJustWon
            THEN match'.server = Opponent(match.server)
            ELSE match'.server = match.server]_vars

\* C8: finalisePoint on a finished match changes neither the match nor the
\* stored list.
PointAfterMatchIsNoOp ==
    [][(match # NoMatch /\ match.matchComplete /\ lastOp'.name = "finalisePoint")
        => (match' = match /\ matches' = matches)]_vars

\* finalisePoint has just been called on a finished match
PointAfterMatchWitness ==
    /\ match # NoMatch
    /\ match.matchComplete
    /\ lastOp = Op("finalisePoint", TRUE)

\* C9: undoLastPoint on an empty history changes neither the match, its
\* completion flag and winner included, nor the stored list.
UndoOnEmptyIsNoOp ==
    [][(match # NoMatch /\ match.pointHistory = <<>>
            /\ lastOp'.name = "undoLastPoint")
        => (match' = match /\ matches' = matches)]_vars

\* undoLastPoint has just been called on a finished match without points
UndoOnEmptyWitness ==
    /\ match # NoMatch
    /\ match.pointHistory = <<>>
    /\ match.matchComplete
    /\ match.winner # Null
    /\ lastOp = Op("undoLastPoint", TRUE)

\* C10: no set index 0..4 is flagged as won by both sides.
SetWonByOneSide ==
    match # NoMatch =>
        \A i \in 1..5 : ~(match.players[1].sets[i] = 1
                            /\ match.players[2].sets[i] = 1)

\* a point has just closed a set, and both sides now hold one
SetWonByOneSideWitness ==
    /\ match # NoMatch
    /\ lastOp = Op("finalisePoint", FALSE)
    /\ match.pointHistory # <<>>
    /\ CountWon(match.players[1].sets) + CountWon(match.players[2].sets)
         > CountWon(LastBefore(match).players[1].sets)
             + CountWon(LastBefore(match).players[2].sets)
    /\ \A p \in Sides : CountWon(match.players[p].sets) >= 1

\* the history after the step begins with the whole history before it
HistoryKept == SubSeq(match'.pointHistory, 1, Len(match.pointHistory))
                   = match.pointHistory

\* C11: the point history is a stack.  A new match starts with none; an
\* accepted finalisePoint adds one record at the end and keeps the others; an
\* undoLastPoint on a non-empty history takes off the last record and keeps
\* the others; no other call on the match adds, drops, moves or alters a
\* record.  So the length is the accepted points less the effective undos.
HistoryIsStack ==
    [][match' # NoMatch =>
        CASE lastOp'.name \in {"startMatch", "startJoinMatch"} ->
                match'.pointHistory = <<>>
          [] lastOp'.name = "finalisePoint" /\ ~match.matchComplete ->
                /\ Len(match'.pointHistory) = Len(match.pointHistory) + 1
                /\ HistoryKept
          [] lastOp'.name = "undoLastPoint" /\ match.pointHistory # <<>> ->
                match'.pointHistory
                    = SubSeq(match.pointHistory, 1, Len(match.pointHistory) - 1)
          [] lastOp'.name \in {"finalisePoint", "undoLastPoint",
                               "applyFastForward", "confirmEndMatch",
                               "changeMatchFormat"} ->
                match'.pointHistory = match.pointHistory
          [] OTHER -> TRUE]_vars

\* an undo has just taken the second of two different records off the history
HistoryIsStackWitness ==
    /\ match # NoMatch
    /\ lastOp = Op("undoLastPoint", FALSE)
    /\ Len(match.pointHistory) = 1
    /\ match.pointHistory[1].winner # match.pointHistory[1].server

-----------------------------------------------------------------------------
(* Joining a match in progress from the setup screen, over a wide range of   *)
(* entered score sheets, and playing on from there.                          *)

\* what a set-score row of the join form may hold
SheetSlots == {Z, Slot(6, 4), Slot(4, 6), Slot(5, 7), Slot(6, 5), Slot(3, 3)}

\* the current-points selects and the server radio of the join form
PointEntries ==
    { [currentPoints |-> <<Str(2), Str(1)>>, currentServer |-> 2],
      [currentPoints |-> <<Num(0), Str(3)>>, currentServer |-> 1] }

JoinSheets ==
    { [matchFormat |-> fmt,
       setScores |-> <<a, b, c, d, Z>>,
       currentPoints |-> e.currentPoints,
       currentServer |-> e.currentServer] :
         fmt \in Formats, a \in SheetSlots, b \in SheetSlots, c \in SheetSlots,
         d \in {Z, Slot(6, 4)}, e \in PointEntries }

InitJoin ==
    /\ stage = "setup"
    /\ match = NoMatch
    /\ matches = <<>>
    /\ nextId = 1
    /\ overrides = NoOverrides
    /\ lastOp = Op("newMatchScreen", FALSE)
    /\ serveModal = ClosedDialog
    /\ PromptsAtRest

\* startJoinMatch() with the join form holding `form`; lastOp keeps the form
JoinFromSheet ==
    /\ stage = "setup"
    /\ \E form \in JoinSheets :
          /\ match' = startJoinMatch(nextId, form)
          /\ lastOp' = [name |-> "startJoinMatch", early |-> FALSE, form |-> form]
    /\ nextId' = nextId + 1
    /\ stage' = "match"
    /\ UNCHANGED <<matches, overrides, serveModal, prompts>>

NextJoin ==
    \/ JoinFromSheet
    \/ FinalisePoint

SpecJoin == InitJoin /\ [][NextJoin]_vars

\* an entered set is complete: 6 or more games for one side, 2 or more ahead
EntryComplete(e) ==
    \/ e.p1 >= 6 /\ e.p1 - e.p2 >= 2
    \/ e.p2 >= 6 /\ e.p2 - e.p1 >= 2

\* how many entries from the first on are complete, among the first fmt
LeadingComplete(sheet, fmt) ==
    CHOOSE k \in 0..fmt :
        /\ \A i \in 1..k : EntryComplete(sheet[i])
        /\ k < fmt => ~EntryComplete(sheet[k + 1])

JustJoined == lastOp.name = "startJoinMatch" /\ "form" \in DOMAIN lastOp

\* C12: joining takes the leading complete entries, up to matchFormat of
\* them, as setScores, flags each for the side with more games, and sets the
\* set index to their number; the entry that stops the scan gives both
\* sides' games when it is not all-zero; later entries count for nothing;
\* points and server are the entered ones.
JoinScansLeadingSets ==
    JustJoined =>
        LET form == lastOp.form
            sheet == form.setScores
            k == LeadingComplete(sheet, form.matchFormat)
            live == IF k < form.matchFormat THEN sheet[k + 1] ELSE Z
        IN  /\ match.setScores
                 = [i \in 1..k |-> [p1Games |-> sheet[i].p1, p2Games |-> sheet[i].p2]]
            /\ \A i \in 1..5 :
                  /\ match.players[1].sets[i] = 1
                        <=> (i <= k /\ sheet[i].p1 > sheet[i].p2)
                  /\ match.players[2].sets[i] = 1
                        <=> (i <= k /\ sheet[i].p2 > sheet[i].p1)
            /\ match.currentSet = k
            /\ match.players[1].games = live.p1
            /\ match.players[2].games = live.p2
            /\ match.players[1].points = form.currentPoints[1]
            /\ match.players[2].points = form.currentPoints[2]
            /\ match.server = form.currentServer

\* joined on 6-4, 3-3, points 2-1, server 2, in a best-of-3
JoinScansLeadingSetsWitness ==
    /\ JustJoined
    /\ lastOp.form.matchFormat = 3
    /\ lastOp.form.setScores = <<Slot(6, 4), Slot(3, 3), Z, Z, Z>>
    /\ match.currentSet = 1
    /\ match.players[1].sets = <<1, 0, 0, 0, 0>>
    /\ match.players[2].sets = <<0, 0, 0, 0, 0>>
    /\ match.players[1].games = 3 /\ match.players[2].games = 3
    /\ ToNum(match.players[1].points) = 2 /\ ToNum(match.players[2].points) = 1
    /\ match.server = 2
    /\ ~match.matchComplete

\* the complete leading entries that side p won
EnteredSetsWon(form, p) ==
    Cardinality({i \in 1..LeadingComplete(form.setScores, form.matchFormat) :
                    IF p = 1 THEN form.setScores[i].p1 > form.setScores[i].p2
                    ELSE form.setScores[i].p2 > form.setScores[i].p1})

\* C13: right after joining, the match is complete exactly when the entered
\* complete sets give one side ceil(matchFormat / 2) or more; the winner is
\* then the name of the side with more of them, and a finalisePoint called
\* next changes nothing.
JoinCompletesOnEnteredSets ==
    /\ [](JustJoined =>
            LET form == lastOp.form
                target == IF form.matchFormat = 3 THEN 2 ELSE 3
            IN  /\ match.matchComplete
                     <=> \E p \in Sides : EnteredSetsWon(form, p) >= target
                /\ match.matchComplete =>
                     \E p \in Sides :
                        /\ EnteredSetsWon(form, p) > EnteredSetsWon(form, Opponent(p))
                        /\ match.winner = match.players[p].name)
    /\ [][(JustJoined /\ match.matchComplete /\ lastOp'.name = "finalisePoint")
            => (match' = match /\ matches' = matches)]_vars

\* a point was called on a match joined as already won by player 2 in three sets
JoinCompletesWitness ==
    /\ match # NoMatch
    /\ match.matchComplete
    /\ match.matchFormat = 5
    /\ match.winner = Player2Name
    /\ match.pointHistory = <<>>
    /\ CountWon(match.players[1].sets) = 1
    /\ lastOp = Op("finalisePoint", TRUE)

-----------------------------------------------------------------------------
(* Fast forward against joining, over a range of entered score sheets *)

\* score rows the fast forward dialog and the join form can both hold
OverrideRows ==
    { <<Z, Z, Z, Z, Z>>,
      <<Slot(6, 4), Slot(3, 3), Z, Z, Z>>,
      <<Slot(6, 5), Z, Z, Z, Z>>,
      <<Slot(4, 6), Slot(2, 6), Z, Z, Z>>,
      <<Slot(5, 7), Slot(6, 4), Slot(5, 4), Z, Z>>,
      <<Slot(6, 4), Slot(6, 4), Slot(6, 4), Z, Z>>,
      <<Slot(3, 3), Slot(6, 4), Z, Z, Z>>,
      <<Z, Slot(6, 4), Z, Z, Z>>,
      <<Slot(6, 4), Slot(4, 6), Slot(6, 4), Slot(4, 6), Z>>,
      <<Slot(4, 6), Slot(6, 4), Slot(4, 6), Slot(7, 5), Slot(1, 2)>> }

OverrideForms ==
    { [setScores |-> rows,
       currentPoints |-> e.currentPoints,
       currentServer |-> e.currentServer] :
         rows \in OverrideRows, e \in PointEntries }

\* C14: fast forward leaves the point history and both sides' stats as they
\* were, whatever scores are entered.
FastForwardKeepsHistory ==
    match # NoMatch =>
        \A form \in OverrideForms \cup FastForwardForms :
            LET m2 == applyFastForward(match, form)
            IN  /\ m2.pointHistory = match.pointHistory
                /\ \A p \in Sides : m2.players[p].stats = match.players[p].stats

\* fast forward has just moved the score of a match with two recorded points
FastForwardKeepsHistoryWitness ==
    /\ match # NoMatch
    /\ lastOp = Op("applyFastForward", FALSE)
    /\ Len(match.pointHistory) = 2
    /\ match.setScores # match.pointHistory[2].before.setScores
    /\ \E p \in Sides : match.players[p].stats.firstServeTotal = 2

\* what fast forward and joining are both said to decide
Board(m) ==
    [setScores |-> m.setScores,
     sets |-> [p \in Sides |-> m.players[p].sets],
     currentSet |-> m.currentSet,
     games |-> [p \in Sides |-> m.players[p].games],
     points |-> [p \in Sides |-> m.players[p].points],
     server |-> m.server,
     matchComplete |-> m.matchComplete,
     winner |-> m.winner]

\* the join form holding what the fast forward dialog holds, for format fmt
AsJoinForm(form, fmt) ==
    [matchFormat |-> fmt, setScores |-> form.setScores,
     currentPoints |-> form.currentPoints, currentServer |-> form.currentServer]

\* C15: on any in-progress match, fast forward gives the same set scores, set
\* flags, set index, games, points, server, completion flag and winner as
\* joining a fresh match of the same format with the same entries.
FastForwardAgreesWithJoin ==
    Live =>
        \A form \in OverrideForms \cup FastForwardForms :
            Board(applyFastForward(match, form))
                = Board(startJoinMatch(match.id,
                                       AsJoinForm(form, match.matchFormat)))

\* fast forward has just been applied to a match with recorded points, and
\* the score stands as joining with those entries would have set it
FastForwardAgreesWithJoinWitness ==
    /\ Live
    /\ lastOp = Op("applyFastForward", FALSE)
    /\ match.pointHistory # <<>>
    /\ match.currentSet = 1
    /\ \E form \in FastForwardForms :
          Board(match) = Board(startJoinMatch(match.id,
                                              AsJoinForm(form, match.matchFormat)))

\* the rows of the end match dialog that hold a score, among the first fmt
RECURSIVE SuppliedScores(_, _)
SuppliedScores(sheet, fmt) ==
    IF fmt = 0 THEN <<>>
    ELSE LET row == sheet[fmt]
         IN  SuppliedScores(sheet, fmt - 1)
                \o (IF row.p1 > 0 \/ row.p2 > 0
                    THEN <<[p1Games |-> row.p1, p2Games |-> row.p2]>>
                    ELSE <<>>)

\* C16: ending a match by hand always leaves it complete; with result 0 the
\* winner is "No Result", with a side selected it is that side's name; both
\* sides' games and points stay as they were, and setScores holds the scores
\* entered in the dialog's rows, one row per set of the format.
EndMatchSetsResult ==
    match # NoMatch =>
        \A result \in EndMatchResults, sheet \in EndMatchSheets \cup OverrideRows :
            LET m2 == confirmEndMatch(match, result, sheet)
            IN  /\ m2.matchComplete
                /\ m2.winner = IF result = 0 THEN "No Result"
                               ELSE match.players[result].name
                /\ \A p \in Sides :
                      /\ m2.players[p].games = match.players[p].games
                      /\ m2.players[p].points = match.players[p].points
                /\ m2.setScores = SuppliedScores(sheet, match.matchFormat)

\* a match stopped in mid-game has just been ended by hand without a result
EndMatchSetsResultWitness ==
    /\ match # NoMatch
    /\ lastOp = Op("confirmEndMatch", FALSE)
    /\ match.matchComplete
    /\ match.winner = "No Result"
    /\ match.setScores # <<>>
    /\ \E p \in Sides : match.players[p].games > 0
    /\ \E p \in Sides : ToNum(match.players[p].points) > 0

-----------------------------------------------------------------------------
(* The stored list across Go Home: a session that starts on a list of 49 or  *)
(* 50 stored matches, starts matches, plays with the quick buttons, leaves   *)
(* matches with Go Home and opens them again.                                *)

\* saved by Go Home right after joining at 6-4 3-3, 30-15
SeedMidSet ==
    StoredCopy(startJoinMatch(100,
        [matchFormat |-> 3, setScores |-> <<Slot(6, 4), Slot(3, 3), Z, Z, Z>>,
         currentPoints |-> <<Str(2), Str(1)>>, currentServer |-> 2]))

\* a finished match as Go Home stores it after it was opened from the list
SeedFinished(id) ==
    StoredCopy(openMatch(
        StoredCopy(startJoinMatch(id,
            [matchFormat |-> 3, setScores |-> <<Slot(4, 6), Slot(4, 6), Z, Z, Z>>,
             currentPoints |-> <<Num(0), Num(0)>>, currentServer |-> 1])),
        3, 1))

\* n stored matches, the one in progress first; the oldest has id 100 + MaxStored
StoredList(n) ==
    [k \in 1..n |-> IF k = 1 THEN SeedMidSet
                    ELSE SeedFinished(100 + MaxStored - n + k)]

InitStore ==
    /\ stage = "review"
    /\ match = NoMatch
    /\ matches \in {StoredList(MaxStored - 1), StoredList(MaxStored)}
    /\ nextId = 101 + MaxStored
    /\ overrides = NoOverrides
    /\ lastOp = Op("mounted", FALSE)
    /\ serveModal = ClosedDialog
    /\ PromptsAtRest

\* startMatch(), for the first MaxMatches matches of the session; the form is
\* left at best of 3 with player 1 serving first
StartNewMatch ==
    /\ stage = "setup"
    /\ nextId <= 100 + MaxStored + MaxMatches
    /\ match' = createMatch(nextId, 3, 1)
    /\ nextId' = nextId + 1
    /\ stage' = "match"
    /\ lastOp' = Op("startMatch", FALSE)
    /\ UNCHANGED <<matches, overrides, serveModal, prompts>>

\* a click on one of the first rows of the stored list
OpenRecent ==
    /\ stage = "review"
    /\ \E k \in 1..(IF Len(matches) < MaxRow THEN Len(matches) ELSE MaxRow) :
          match' = openMatch(matches[k], 3, 1)
    /\ stage' = "match"
    /\ lastOp' = Op("openMatch", FALSE)
    /\ UNCHANGED <<matches, nextId, overrides, serveModal, prompts>>

\* quickFinalizePoint(winner) by either button
QuickPoint ==
    /\ stage = "match"
    /\ match.matchComplete \/ Len(match.pointHistory) < MaxHist
    /\ \E winner \in Sides :
          LET m2 == finalisePoint(match, winner, ServeIn, NullObj, "medium", "")
          IN  /\ match' = m2
              /\ matches' = finalisePointStored(matches, match, m2)
    /\ lastOp' = Op("finalisePoint", match.matchComplete)
    /\ UNCHANGED <<stage, nextId, overrides, serveModal, prompts>>

\* goHome(): save the active match, drop it, show the list
GoHome ==
    /\ stage \in {"setup", "match"}
    /\ matches' = saveCurrentMatch(matches, match)
    /\ match' = NoMatch
    /\ stage' = "review"
    /\ lastOp' = Op("goHome", match = NoMatch)
    /\ UNCHANGED <<nextId, overrides, serveModal, prompts>>

NextStore ==
    \/ NewMatchScreen
    \/ StartNewMatch
    \/ OpenRecent
    \/ QuickPoint
    \/ GoHome

SpecStore == InitStore /\ [][NextStore]_vars

-----------------------------------------------------------------------------
(* C17: the round trip of an in-progress match through the stored list *)

\* the record the list holds for id after a save
StoredFor(ms, id) == ms[FindIndex(ms, id)]

\* o is the match m as far as the claim lists it, and not complete
SameMatch(o, m) ==
    /\ o.currentSet = m.currentSet
    /\ o.server = m.server
    /\ o.gameStartServer = m.gameStartServer
    /\ o.setScores = m.setScores
    /\ o.players = m.players
    /\ o.pointHistory = m.pointHistory
    /\ o.matchFormat = m.matchFormat
    /\ ~o.matchComplete

\* C17: when Go Home saves an in-progress match, opening the record the list
\* then holds for its id gives, whatever the setup form holds, a match with
\* the same currentSet, server, gameStartServer, setScores, players (sets,
\* games, points, stats), pointHistory and matchFormat, not complete; it is
\* the saved match in every field, so that finalisePoint and undoLastPoint,
\* which read nothing but the match and their arguments, do to it what they
\* do to the saved match.
RoundTripKeepsMatch ==
    [][(lastOp'.name = "goHome" /\ Live) =>
         /\ FindIndex(matches', match.id) > 0
         /\ LET rec == StoredFor(matches', match.id)
                o   == openMatch(rec, 3, 1)
            IN  /\ \A fmt \in Formats, firstServer \in Sides :
                     openMatch(rec, fmt, firstServer) = o
                /\ SameMatch(o, match)
                /\ o = match]_vars

\* a match is open again with the points recorded in this session: it was
\* left with Go Home after them (the list starts without recorded points)
RoundTripWitness ==
    /\ lastOp.name = "openMatch"
    /\ Live
    /\ Len(match.pointHistory) > 0
    /\ match.players[1].stats.firstServeTotal + match.players[2].stats.firstServeTotal > 0

-----------------------------------------------------------------------------
(* C18: opening a stored completed match *)

\* side p holds the flag of set i (1-based) and the other side does not
FlagFor(o, i, p) ==
    o.players[p].sets[i] = 1 /\ o.players[Opponent(p)].sets[i] = 0

\* the summary fields of an opened completed match, apart from the set flags
OpenedSummary(o, rec, m) ==
    /\ o.matchComplete
    /\ o.pointHistory = <<>>
    /\ \A p \in Sides :
         /\ o.players[p].stats = ZeroStats
         /\ o.players[p].games = 0
         /\ o.players[p].points = Num(0)
    /\ o.setScores = m.setScores
    /\ o.winner = rec.winner

\* the set flags of an opened completed match follow the games of each set
OpenedFlags(o, m) ==
    \A i \in 1..Len(m.setScores) :
        /\ m.setScores[i].p1Games > m.setScores[i].p2Games => FlagFor(o, i, 1)
        /\ m.setScores[i].p2Games > m.setScores[i].p1Games => FlagFor(o, i, 2)

\* a point, a fast forward or a manual end completes the match, and saves it
JustCompleted ==
    /\ Live
    /\ match' # NoMatch /\ match'.matchComplete
    /\ lastOp'.name \in {"finalisePoint", "applyFastForward", "confirmEndMatch"}

\* C18: when a point, a fast forward or a manual end completes the match, opening the record
\* the list then holds for its id gives a complete match with empty
\* pointHistory, zero stats, zero games and points, the set scores the match
\* has at completion, the winner the record holds, and for each final set the
\* setsWon flag at its index set for the side with more games in that set.
OpenCompletedRestores ==
    [][JustCompleted =>
         /\ FindIndex(matches', match'.id) > 0
         /\ \A fmt \in Formats, firstServer \in Sides :
              LET rec == StoredFor(matches', match'.id)
                  o   == openMatch(rec, fmt, firstServer)
              IN  OpenedSummary(o, rec, match') /\ OpenedFlags(o, match')]_vars

-----------------------------------------------------------------------------
(* Saving: a session on a list of two in-progress matches, one in the middle *)
(* of a set and one a point from the end, with the quick buttons, the two    *)
(* overrides and Go Home.                                                    *)

InitSave ==
    /\ stage = "review"
    /\ match = NoMatch
    /\ matches = <<SeedMidSet, SeedJoined>>
    /\ nextId = 101
    /\ overrides = NoOverrides
    /\ lastOp = Op("mounted", FALSE)
    /\ serveModal = ClosedDialog
    /\ PromptsAtRest

NextSave ==
    \/ OpenRecent
    \/ QuickPoint
    \/ ApplyFastForward
    \/ ConfirmEndMatch
    \/ GoHome

SpecSave == InitSave /\ [][NextSave]_vars

-----------------------------------------------------------------------------
(* C19: when the active match is written to the stored list *)

\* the list holds, for the id of m, the record of m
HoldsRecordOf(ms, m) ==
    FindIndex(ms, m.id) > 0 /\ StoredFor(ms, m.id) = StoredCopy(m)

\* Go Home leaves a match
LeftMatch == lastOp' = Op("goHome", FALSE) /\ match # NoMatch

\* a manual end
EndedByHand == lastOp'.name = "confirmEndMatch" /\ match # NoMatch

\* C19 as stated: after every recorded point that wins a game (and so after
\* every one that wins a set), when the match ends by points, fast forward or
\* manual end, and on Go Home, the list holds the record of the match as it
\* then is.
SavedAtEverySavePoint ==
    [][/\ (PointStep /\ GameJustWon) => HoldsRecordOf(matches', match')
       /\ (JustCompleted \/ EndedByHand) => HoldsRecordOf(matches', match')
       /\ LeftMatch => HoldsRecordOf(matches', match)]_vars

\* C19: the list holds the record of the match as it then is when a point, a
\* fast forward or a manual end completes the match, and on Go Home the record
\* of the match that is left; a recorded point that does not complete the
\* match, game- or set-winning or not, leaves the list as it was.
SavedOnEndAndGoHome ==
    [][/\ (JustCompleted \/ EndedByHand) => HoldsRecordOf(matches', match')
       /\ LeftMatch => HoldsRecordOf(matches', match)
       /\ (PointStep /\ ~match'.matchComplete) => matches' = matches]_vars

\* a point has just won a game without ending the match, and the list still
\* holds an older record for the match
SavedOnEndWitness ==
    /\ Live
    /\ lastOp = Op("finalisePoint", FALSE)
    /\ match.pointHistory # <<>>
    /\ PointsCleared(match)
    /\ FindIndex(matches, match.id) > 0
    /\ ~HoldsRecordOf(matches, match)

-----------------------------------------------------------------------------
(* C20: the shape of the stored list *)

\* at most MaxStored entries, no id twice
ListWellFormed(ms) ==
    /\ Len(ms) <= MaxStored
    /\ \A i, j \in 1..Len(ms) : ms[i].id = ms[j].id => i = j

\* ms2 is ms with the record of m put in place of the entry with its id
ReplacedInPlace(ms, ms2, m) ==
    /\ Len(ms2) = Len(ms)
    /\ \A i \in 1..Len(ms) :
         ms2[i] = IF i = FindIndex(ms, m.id) THEN StoredCopy(m) ELSE ms[i]

\* ms2 is ms with the record of m in front, cut after the first MaxStored
InsertedAtFront(ms, ms2, m) ==
    /\ Len(ms2) = (IF Len(ms) < MaxStored THEN Len(ms) + 1 ELSE MaxStored)
    /\ ms2[1] = StoredCopy(m)
    /\ \A i \in 2..Len(ms2) : ms2[i] = ms[i - 1]

\* the match a step saves: the one Go Home leaves, or the one a point completes
SavedMatch == IF lastOp'.name = "goHome" THEN match ELSE match'

\* C20: the stored list always holds at most 50 entries and no id twice; a
\* step that saves a match whose id is in the list replaces that entry in
\* place, the length and the other entries unchanged; a step that saves a new
\* id puts the record first, the others one place down, and drops what would
\* be beyond the 50th.
StoredListBounded ==
    /\ [](ListWellFormed(matches))
    /\ [][(LeftMatch \/ JustCompleted) =>
            IF FindIndex(matches, SavedMatch.id) > 0
            THEN ReplacedInPlace(matches, matches', SavedMatch)
            ELSE InsertedAtFront(matches, matches', SavedMatch)]_vars

\* a new match was saved to a full list: it is first, the list is still full,
\* and the oldest entry is gone
StoredListWitness ==
    /\ lastOp = Op("goHome", FALSE)
    /\ Len(matches) = MaxStored
    /\ matches[1].id > 100 + MaxStored
    /\ \A i \in 1..Len(matches) : matches[i].id # 100 + MaxStored

\* a stored match was opened, played and saved again: its entry is replaced
\* where it stood
StoredListReplacedWitness ==
    /\ lastOp = Op("goHome", FALSE)
    /\ Len(matches) \in {MaxStored - 1, MaxStored}
    /\ matches[1].id = 100
    /\ matches[1] # SeedMidSet

-----------------------------------------------------------------------------
(* The overrides on one match: a match is started or joined from the setup   *)
(* screen, played with the quick buttons, fast forwarded and ended by hand.  *)

NextOverride ==
    \/ StartMatch
    \/ StartJoinMatch
    \/ QuickPoint
    \/ ApplyFastForward
    \/ ConfirmEndMatch

SpecOverride == InitPlay /\ [][NextOverride]_vars

-----------------------------------------------------------------------------
(* C21: restoreState and isInProgress of a stored record *)

\* the record carries a restore state
HasRestoreState(rec) == rec.restoreState # NullObj

\* a step that writes the active match to the list
SavingStep == LeftMatch \/ JustCompleted \/ EndedByHand

\* C21: every record of the stored list has restoreState present exactly when
\* its isInProgress flag is true, and the record a save writes has
\* isInProgress true exactly when the match is not complete as it is saved.
RestoreStateIffInProgress ==
    /\ [](\A k \in 1..Len(matches) :
             HasRestoreState(matches[k]) <=> matches[k].isInProgress)
    /\ [][SavingStep =>
            /\ FindIndex(matches', SavedMatch.id) > 0
            /\ StoredFor(matches', SavedMatch.id).isInProgress
                  <=> ~SavedMatch.matchComplete]_vars

\* this session has saved a match in progress, with its recorded point, and a
\* complete match
RestoreStateWitness ==
    /\ lastOp = Op("goHome", FALSE)
    /\ \E k \in 1..Len(matches) :
          /\ matches[k].isInProgress
          /\ HasRestoreState(matches[k])
          /\ matches[k].restoreState.pointHistory # <<>>
    /\ \E k \in 1..Len(matches) :
          ~matches[k].isInProgress /\ ~HasRestoreState(matches[k])

-----------------------------------------------------------------------------
(* The point-entry dialog, button by button: a match is started or joined,   *)
(* and up to MaxEntries points are entered through the dialog, which can be  *)
(* closed at any step.                                                       *)

MaxEntries == 1

FirstServeButtons == {"ace", "unreturned", "in", "out"}
SecondServeButtons == {"ace", "unreturned", "in", "double-fault"}
\* one stroke button of each kind, one point type button, one comment
StrokeButtons == {"fh-winner", "bh-unforced", "fh-forced"}
PointTypeButtons == {"long"}
Comments == {"net cord"}

\* a method of the dialog returns the match and the dialog it leaves
Left(m, d) == [match |-> m, dialog |-> d]

openServeModal(m, d) ==
    IF m = NoMatch \/ m.matchComplete THEN d
    ELSE [visible |-> TRUE, firstServe |-> "", secondServe |-> "",
          finalPlayer |-> NoPlayer, strokeType |-> "", pointType |-> "",
          comment |-> ""]

closeServeModal(d) == [d EXCEPT !.visible = FALSE]

serveNeedsFinal(d) ==
    IF ~d.visible THEN FALSE
    ELSE IF d.firstServe = "in" THEN TRUE
    ELSE d.firstServe = "out" /\ d.secondServe = "in"

selectFirstServe(m, d, outcome) ==
    LET d1 == [d EXCEPT !.firstServe = outcome]
    IN  IF outcome \in {"ace", "unreturned"}
        THEN Left(finalisePoint(m, m.server,
                                [firstServe |-> outcome, secondServe |-> Null],
                                NullObj, "short", d1.comment),
                  closeServeModal(d1))
        ELSE Left(m, d1)

selectSecondServe(m, d, outcome) ==
    LET d1 == [d EXCEPT !.secondServe = outcome]
        receiver == IF m.server = 1 THEN 2 ELSE 1
    IN  IF outcome = "double-fault"
        THEN Left(finalisePoint(m, receiver,
                                [firstServe |-> "out", secondServe |-> "out"],
                                NullObj, "short", d1.comment),
                  closeServeModal(d1))
        ELSE IF outcome \in {"ace", "unreturned"}
        THEN Left(finalisePoint(m, m.server,
                                [firstServe |-> "out", secondServe |-> outcome],
                                NullObj, "short", d1.comment),
                  closeServeModal(d1))
        ELSE Left(m, d1)

\* a final-player button that gives the point to that player
selectFinalPlayerAwards(m, d, playerId) ==
    Left(finalisePoint(m, playerId, ServeIn, NullObj, "medium", ""),
         [d EXCEPT !.finalPlayer = playerId])

selectFinalPlayer(m, d, playerId) ==
    Left(m, [d EXCEPT !.finalPlayer = playerId])

\* selectStroke that gives every point to the final player
selectStrokeToFinalPlayer(m, d, stroke) ==
    LET d1 == [d EXCEPT !.strokeType = stroke]
        serveData == [firstServe |-> d1.firstServe,
                      secondServe |-> IF d1.firstServe = "out"
                                      THEN d1.secondServe ELSE Null]
        pointEnding == [finalPlayer |-> d1.finalPlayer, strokeType |-> stroke]
    IN  Left(finalisePoint(m, d1.finalPlayer, serveData, pointEnding,
                           d1.pointType, d1.comment),
             closeServeModal(d1))

selectStroke(m, d, stroke) ==
    LET d1 == [d EXCEPT !.strokeType = stroke]
        winner == IF IsWinnerStroke(stroke) THEN d1.finalPlayer
                  ELSE IF d1.finalPlayer = 1 THEN 2 ELSE 1
        serveData == [firstServe |-> d1.firstServe,
                      secondServe |-> IF d1.firstServe = "out"
                                      THEN d1.secondServe ELSE Null]
        pointEnding == [finalPlayer |-> d1.finalPlayer, strokeType |-> stroke]
    IN  Left(finalisePoint(m, winner, serveData, pointEnding,
                           d1.pointType, d1.comment),
             closeServeModal(d1))

\* quickFinalizePoint that leaves the dialog open
quickFinalizePointStaysOpen(m, d, winner) ==
    Left(finalisePoint(m, winner, ServeIn, NullObj, "medium", ""), d)

quickFinalizePoint(m, d, winner) ==
    Left(finalisePoint(m, winner, ServeIn, NullObj, "medium", ""),
         closeServeModal(d))

\* the method called last, and the match as it was when the dialog was opened
EntryOp(name, early, atOpen) ==
    [name |-> name, early |-> early, atOpen |-> atOpen]

\* the step a dialog method makes, leaving r
EntryStep(name, r) ==
    /\ match' = r.match
    /\ serveModal' = r.dialog
    /\ matches' = finalisePointStored(matches, match, r.match)
    /\ lastOp' = EntryOp(name, FALSE, lastOp.atOpen)
    /\ UNCHANGED <<stage, nextId, overrides, prompts>>

\* the Point Played button
OpenServeModal ==
    /\ stage = "match"
    /\ ~serveModal.visible
    /\ Len(match.pointHistory) < MaxEntries
    /\ serveModal' = openServeModal(match, serveModal)
    /\ lastOp' = EntryOp("openServeModal", match.matchComplete, match)
    /\ UNCHANGED <<stage, match, matches, nextId, overrides, prompts>>

\* the close mark of the dialog
CloseServeModal ==
    /\ serveModal.visible
    /\ serveModal' = closeServeModal(serveModal)
    /\ lastOp' = EntryOp("closeServeModal", FALSE, lastOp.atOpen)
    /\ UNCHANGED <<stage, match, matches, nextId, overrides, prompts>>

\* the first serve buttons, shown while no first serve is chosen
SelectFirstServe ==
    /\ serveModal.visible
    /\ serveModal.firstServe = ""
    /\ \E outcome \in FirstServeButtons :
          EntryStep("selectFirstServe", selectFirstServe(match, serveModal, outcome))

\* the second serve buttons, shown after a first serve out
SelectSecondServe ==
    /\ serveModal.visible
    /\ serveModal.firstServe = "out"
    /\ serveModal.secondServe = ""
    /\ \E outcome \in SecondServeButtons :
          EntryStep("selectSecondServe", selectSecondServe(match, serveModal, outcome))

\* the final-shot player buttons, shown when serveNeedsFinal()
SelectFinalPlayer ==
    /\ serveNeedsFinal(serveModal)
    /\ \E playerId \in Sides :
          EntryStep("selectFinalPlayer", selectFinalPlayer(match, serveModal, playerId))

\* the stroke buttons, shown once a final-shot player is chosen
SelectStroke ==
    /\ serveNeedsFinal(serveModal)
    /\ serveModal.finalPlayer # NoPlayer
    /\ \E stroke \in StrokeButtons :
          EntryStep("selectStroke", selectStroke(match, serveModal, stroke))

\* the point type buttons
SelectPointType ==
    /\ serveModal.visible
    /\ \E pointType \in PointTypeButtons :
          EntryStep("selectPointType",
                    Left(match, [serveModal EXCEPT !.pointType = pointType]))

\* the comment box
TypeComment ==
    /\ serveModal.visible
    /\ \E comment \in Comments :
          EntryStep("typeComment",
                    Left(match, [serveModal EXCEPT !.comment = comment]))

\* the quick winner buttons of the dialog
QuickWinner ==
    /\ serveModal.visible
    /\ \E winner \in Sides :
          EntryStep("quickFinalizePoint", quickFinalizePoint(match, serveModal, winner))

NextEntry ==
    \/ StartMatch
    \/ StartJoinMatch
    \/ OpenServeModal
    \/ CloseServeModal
    \/ SelectFirstServe
    \/ SelectSecondServe
    \/ SelectFinalPlayer
    \/ SelectStroke
    \/ SelectPointType
    \/ TypeComment
    \/ QuickWinner

SpecEntry == InitPlay /\ [][NextEntry]_vars

-----------------------------------------------------------------------------
(* C22, C23, C30: the point-entry dialog *)

\* the methods of the dialog
EntryOps ==
    {"openServeModal", "closeServeModal", "selectFirstServe", "selectSecondServe",
     "selectFinalPlayer", "selectStroke", "selectPointType", "typeComment",
     "quickFinalizePoint"}

\* C22: while the dialog opened by Point Played is open, whatever has been
\* selected in it, and when it has been closed by its close mark, the match
\* (scores, server, stats, pointHistory, matchComplete, every field) is the
\* match as it was when the dialog was opened.
CancelLeavesMatch ==
    (/\ lastOp.name \in EntryOps
     /\ serveModal.visible \/ lastOp.name = "closeServeModal")
    => match = lastOp.atOpen

\* the dialog was closed after a first serve out, a second serve in, a final
\* player, a point type and a comment, on a match in mid-game
CancelLeavesMatchWitness ==
    /\ lastOp.name = "closeServeModal"
    /\ ~serveModal.visible
    /\ serveModal.firstServe = "out"
    /\ serveModal.secondServe = "in"
    /\ serveModal.finalPlayer = 2
    /\ serveModal.pointType = "long"
    /\ serveModal.comment = "net cord"
    /\ match = lastOp.atOpen
    /\ match.players[1].games > 0
    /\ ToNum(match.players[2].points) > 0

\* the step of a completing path: an outright serve, a double fault, a
\* stroke, or a quick winner button
Completing ==
    \/ lastOp'.name = "selectFirstServe"
          /\ serveModal'.firstServe \in {"ace", "unreturned"}
    \/ lastOp'.name = "selectSecondServe"
          /\ serveModal'.secondServe \in {"ace", "unreturned", "double-fault"}
    \/ lastOp'.name = "selectStroke"
    \/ lastOp'.name = "quickFinalizePoint"

\* exactly one record is appended
OneAppended ==
    /\ Len(match'.pointHistory) = Len(match.pointHistory) + 1
    /\ SubSeq(match'.pointHistory, 1, Len(match.pointHistory)) = match.pointHistory

\* C23: every completing path of the dialog appends exactly one point record
\* and closes the dialog; a record is appended only by a completing path of
\* an open dialog; and from the opening of the dialog to the next opening at
\* most one record is appended.
OneRecordPerOpening ==
    /\ [][Completing => (OneAppended /\ ~serveModal'.visible)]_vars
    /\ [][(/\ match # NoMatch
            /\ match' # NoMatch
            /\ match'.pointHistory # match.pointHistory)
            => (serveModal.visible /\ Completing)]_vars
    /\ [](lastOp.name \in EntryOps =>
            /\ Len(match.pointHistory) <= Len(lastOp.atOpen.pointHistory) + 1
            /\ serveModal.visible => match.pointHistory = lastOp.atOpen.pointHistory)

\* a stroke after a returned second serve has appended the one record of
\* this opening and closed the dialog
OneRecordPerOpeningWitness ==
    /\ lastOp.name = "selectStroke"
    /\ ~serveModal.visible
    /\ serveModal.firstServe = "out"
    /\ Len(match.pointHistory) = Len(lastOp.atOpen.pointHistory) + 1

\* the record appended last
LastRecord(m) == m.pointHistory[Len(m.pointHistory)]

\* C30: the point winner recorded by the detailed flow is the server for an
\* ace or unreturned first or second serve, the receiver for a double fault
\* (recorded as first serve out, second serve out), the final-shot player for
\* a winner stroke and that player's opponent for an unforced or forced
\* error; the recorded server is the server as the point is finalised.
DetailedFlowWinner ==
    [][(Completing /\ lastOp'.name # "quickFinalizePoint") =>
         LET rec == LastRecord(match')
             d   == serveModal'
         IN  /\ rec.server = match.server
             /\ lastOp'.name = "selectFirstServe" =>
                   /\ rec.winner = match.server
                   /\ rec.serveData = [firstServe |-> d.firstServe,
                                        secondServe |-> Null]
             /\ (lastOp'.name = "selectSecondServe"
                    /\ d.secondServe = "double-fault") =>
                   /\ rec.winner = Opponent(match.server)
                   /\ rec.serveData = [firstServe |-> "out", secondServe |-> "out"]
             /\ (lastOp'.name = "selectSecondServe"
                    /\ d.secondServe # "double-fault") =>
                   /\ rec.winner = match.server
                   /\ rec.serveData = [firstServe |-> "out",
                                        secondServe |-> d.secondServe]
             /\ lastOp'.name = "selectStroke" =>
                   /\ rec.pointEnding = [finalPlayer |-> d.finalPlayer,
                                          strokeType |-> d.strokeType]
                   /\ rec.winner = IF d.strokeType = "fh-winner"
                                    THEN d.finalPlayer
                                    ELSE Opponent(d.finalPlayer)]_vars

\* a forced error by player 1 after a returned second serve has given the
\* point to player 2, player 1 serving
DetailedFlowWinnerWitness ==
    /\ lastOp.name = "selectStroke"
    /\ match.pointHistory # <<>>
    /\ LastRecord(match).pointEnding = [finalPlayer |-> 1, strokeType |-> "fh-forced"]
    /\ LastRecord(match).serveData = [firstServe |-> "out", secondServe |-> "in"]
    /\ LastRecord(match).server = 1
    /\ LastRecord(match).winner = 2

-----------------------------------------------------------------------------
(* C24: the point column of the scoreboard *)

\* pointDisplay(playerId): >= and > convert a numeric string, === and the
\* cases of the switch do not
pointDisplay(m, playerId) ==
    LET p1 == m.players[1].points
        p2 == m.players[2].points
        points == m.players[playerId].points
    IN  IF ToNum(p1) >= 3 /\ ToNum(p2) >= 3
        THEN IF p1 = p2 THEN "Deuce"
             ELSE IF \/ playerId = 1 /\ ToNum(p1) > ToNum(p2)
                     \/ playerId = 2 /\ ToNum(p2) > ToNum(p1)
                  THEN "Ad"
                  ELSE "40"
        ELSE CASE points = Num(0) -> "0"
               [] points = Num(1) -> "15"
               [] points = Num(2) -> "30"
               [] points = Num(3) -> "40"
               [] OTHER -> "40"

\* the label of a side that has mine points against theirs
PointLabel(mine, theirs) ==
    IF mine >= 3 /\ theirs >= 3
    THEN IF mine = theirs THEN "Deuce"
         ELSE IF mine > theirs THEN "Ad" ELSE "40"
    ELSE CASE mine = 0 -> "0"
           [] mine = 1 -> "15"
           [] mine = 2 -> "30"
           [] OTHER -> "40"

\* C24: the label shown for a side is Deuce, Ad or 40 when both sides have 3
\* points or more (equal, more, fewer), and otherwise 0, 15, 30, 40 for 0, 1,
\* 2, 3 points and 40 above 3.
PointLabelFollowsPoints ==
    match # NoMatch =>
        \A p \in Sides :
            pointDisplay(match, p) =
                PointLabel(ToNum(match.players[p].points),
                           ToNum(match.players[Opponent(p)].points))

\* the same for points that are numbers, as recorded points leave them
PointLabelOfNumbers ==
    (/\ match # NoMatch
     /\ \A p \in Sides : match.players[p].points.t = "number")
    => \A p \in Sides :
           pointDisplay(match, p) =
               PointLabel(ToNum(match.players[p].points),
                          ToNum(match.players[Opponent(p)].points))

-----------------------------------------------------------------------------
(* C25: what one point record adds to the statistics *)

\* 1 when the condition holds
One(cond) == IF cond THEN 1 ELSE 0

\* what the claim has the record add to the counters of side p
StatsAdded(rec, p) ==
    LET first    == rec.serveData.firstServe
        second   == rec.serveData.secondServe
        serving  == rec.server = p
        firstIn  == serving /\ first # "out"
        firstOut == serving /\ first = "out"
        fault    == firstOut /\ second = "out"
        held     == rec.winner = rec.server
        last     == rec.pointEnding # NullObj /\ rec.pointEnding.finalPlayer = p
    IN  [firstServeTotal     |-> One(serving),
         firstServeIn        |-> One(firstIn),
         firstServeWon       |-> One(firstIn /\ held),
         secondServeAttempts |-> One(firstOut),
         secondServeWon      |-> One(firstOut /\ ~fault /\ held),
         aces                |-> One(firstIn /\ first = "ace")
                                 + One(firstOut /\ ~fault /\ second = "ace"),
         doubleFaults        |-> One(fault),
         winners             |-> One(last /\ rec.pointEnding.strokeType
                                              \in {"fh-winner", "bh-winner"}),
         unforcedErrors      |-> One(last /\ rec.pointEnding.strokeType
                                              \in {"fh-unforced", "bh-unforced"})]

\* C25: a recorded point adds to each side's counters what the claim lists:
\* to the server's serve counters firstServeTotal, then firstServeIn, aces
\* and firstServeWon for a first serve not out, or secondServeAttempts and
\* either doubleFaults or aces and secondServeWon for a first serve out; to
\* the final-shot player's winners or unforcedErrors for a winner or an
\* unforced stroke; nothing for a forced stroke, and nothing else.
RecordAddsToStats ==
    [][Completing =>
         \A p \in Sides :
             \A k \in DOMAIN ZeroStats :
                 match'.players[p].stats[k] =
                     match.players[p].stats[k] + StatsAdded(LastRecord(match'), p)[k]]_vars

\* a second-serve ace has been recorded: its server has an ace and a second
\* serve won, and no first serve in
RecordAddsToStatsWitness ==
    /\ match # NoMatch
    /\ Len(match.pointHistory) >= 1
    /\ LastRecord(match).serveData = [firstServe |-> "out", secondServe |-> "ace"]
    /\ match.players[LastRecord(match).server].stats.aces = 1
    /\ match.players[LastRecord(match).server].stats.secondServeWon = 1
    /\ match.players[LastRecord(match).server].stats.firstServeIn = 0

\* a forced error has been recorded and no side has a winner or an unforced
\* error counted
ForcedErrorCountsNothingWitness ==
    /\ match # NoMatch
    /\ Len(match.pointHistory) = 1
    /\ LastRecord(match).pointEnding # NullObj
    /\ LastRecord(match).pointEnding.strokeType = "fh-forced"
    /\ \A p \in Sides : /\ match.players[p].stats.winners = 0
                         /\ match.players[p].stats.unforcedErrors = 0

-----------------------------------------------------------------------------
(* C26: the winner field of a match that is not complete *)

\* C26: in every state where the match is not complete its winner field is
\* null.
WinnerOnlyWhenComplete ==
    Live => match.winner = Null

\* the match-winning point has just been undone: the match is open again
\* while the list still holds the record of its completion
WinnerOnlyWhenCompleteWitness ==
    /\ Live
    /\ lastOp = Op("undoLastPoint", FALSE)
    /\ FindIndex(matches, match.id) > 0
    /\ ~StoredFor(matches, match.id).isInProgress
    /\ StoredFor(matches, match.id).winner # Null

-----------------------------------------------------------------------------
(* C27: a completed match opened from the list *)

\* the match on the scoreboard is a completed match opened from the list and
\* not touched since: openMatch gave it the stored finalSets array
OpenedCompleted == match # NoMatch /\ match.matchComplete /\ match.sharesStored

\* C27: on a completed match opened from the list, the controls the scoreboard
\* leaves enabled change nothing: a point entry leaves setScores, the set
\* flags, matchComplete and winner as they are, and after Go Home the list
\* holds for its id the record it held before.  (Undo, Fast Forward and Match
\* is Over are disabled for such a match.)
OpenedCompletedIsReadOnly ==
    [][(OpenedCompleted /\ lastOp'.name \in {"finalisePoint", "goHome"}) =>
         /\ match' # NoMatch =>
               /\ match'.setScores = match.setScores
               /\ \A p \in Sides : match'.players[p].sets = match.players[p].sets
               /\ match'.matchComplete
               /\ match'.winner = match.winner
         /\ lastOp'.name = "goHome" =>
               /\ FindIndex(matches', match.id) = FindIndex(matches, match.id)
               /\ StoredFor(matches', match.id) = StoredFor(matches, match.id)]_vars

-----------------------------------------------------------------------------
(* The format radios on a joined match: a match is joined from a sheet,      *)
(* points are recorded and the format is changed.                            *)

NextFormat ==
    \/ JoinFromSheet
    \/ FinalisePoint
    \/ ChangeMatchFormat

SpecFormat == InitJoin /\ [][NextFormat]_vars

\* the first n entries of a sequence, all of them when it has fewer
FirstN(seq, n) == SubSeq(seq, 1, IF Len(seq) < n THEN Len(seq) ELSE n)

\* C28: after changeMatchFormat, setScores holds its entries below the new
\* matchFormat, unchanged, and none at or beyond it; the match is complete
\* when currentSet is at or beyond the new matchFormat and otherwise as
\* complete as it was; points, games, server and pointHistory are unchanged.
FormatChangeTruncates ==
    [][lastOp'.name = "changeMatchFormat" =>
         /\ match'.setScores = FirstN(match.setScores, match'.matchFormat)
         /\ match.currentSet >= match'.matchFormat => match'.matchComplete
         /\ match.currentSet < match'.matchFormat =>
               match'.matchComplete = match.matchComplete
         /\ \A p \in Sides :
               /\ match'.players[p].points = match.players[p].points
               /\ match'.players[p].games = match.players[p].games
         /\ match'.server = match.server
         /\ match'.pointHistory = match.pointHistory]_vars

\* a best-of-5 match standing at two sets all was changed to best of 3: the
\* fourth set score is gone, the first three are kept, the match is complete
FormatChangeWitness ==
    /\ match # NoMatch
    /\ lastOp.name = "changeMatchFormat"
    /\ match.matchFormat = 3
    /\ Len(match.setScores) = 3
    /\ CountWon(match.players[1].sets) + CountWon(match.players[2].sets) = 4
    /\ match.matchComplete

\* a step that saves a complete match
SavesComplete == SavingStep /\ SavedMatch # NoMatch /\ SavedMatch.matchComplete

\* C29: whenever a complete match is saved, the winner of the record the list
\* then holds for its id is the match's winner field as it is saved.
StoredWinnerIsMatchWinner ==
    [][SavesComplete =>
         /\ FindIndex(matches', SavedMatch.id) > 0
         /\ StoredFor(matches', SavedMatch.id).winner = SavedMatch.winner]_vars

-----------------------------------------------------------------------------
(* The current-points selects of the join form and of the fast forward       *)
(* dialog, over every pair of options they offer.                            *)

\* what a current-points select may hold: 0 as data() builds it, or the
\* value of the chosen option, "0" to "4"
PointSelects == {Num(0)} \cup {Str(n) : n \in 0..4}

\* the join form with one set entered and the second set at 2-1
PointForms ==
    { [matchFormat |-> 3,
       setScores |-> <<Slot(6, 4), Slot(2, 1), Z, Z, Z>>,
       currentPoints |-> <<a, b>>,
       currentServer |-> 1] : a \in PointSelects, b \in PointSelects }

\* startJoinMatch() with the join form holding one of PointForms
JoinWithPoints ==
    /\ stage = "setup"
    /\ \E form \in PointForms : match' = startJoinMatch(nextId, form)
    /\ nextId' = nextId + 1
    /\ stage' = "match"
    /\ lastOp' = Op("startJoinMatch", FALSE)
    /\ UNCHANGED <<matches, overrides, serveModal, prompts>>

\* applyFastForward() with the dialog holding the rows and points of one of PointForms
FastForwardWithPoints ==
    /\ stage = "match"
    /\ Total(overrides) < MaxOverrides
    /\ \E form \in PointForms :
          LET m2 == applyFastForward(match, [setScores |-> form.setScores,
                                             currentPoints |-> form.currentPoints,
                                             currentServer |-> form.currentServer])
          IN  /\ match' = m2
              /\ matches' = applyFastForwardStored(matches, match, m2)
    /\ overrides' = IF match.matchComplete
                    THEN [overrides EXCEPT !.lateForward = @ + 1]
                    ELSE [overrides EXCEPT !.fastForward = @ + 1]
    /\ lastOp' = Op("applyFastForward", FALSE)
    /\ UNCHANGED <<stage, nextId, serveModal, prompts>>

NextPoints ==
    \/ StartMatch
    \/ JoinWithPoints
    \/ FastForwardWithPoints
    \/ FinalisePoint

SpecPoints == InitPlay /\ [][NextPoints]_vars

\* C32: while the match is not complete, neither side's points satisfy the
\* game-won condition (at least 4 with a lead of at least 2) and neither
\* side's games satisfy the set-won condition (at least 6 with a lead of at
\* least 2).
NothingDecidedBelow ==
    Live => \A p \in Sides : ~checkGameWin(match, p) /\ ~checkSetWin(match, p)

\* the games half of C32 alone
NoSetDecidedBelow ==
    Live => \A p \in Sides : ~checkSetWin(match, p)

\* C33: while the match is not complete, currentSet is the number of entries
\* of setScores and is below matchFormat.
CurrentSetWithinFormat ==
    Live => /\ match.currentSet = Len(match.setScores)
            /\ match.currentSet < match.matchFormat

\* C34: whenever the match is complete its winner field is not null and,
\* unless it is "No Result", is the name the scoreboard announces, the side
\* with more won sets.
WinnerNamedWhenComplete ==
    (match # NoMatch /\ match.matchComplete) =>
        /\ match.winner # Null
        /\ match.winner # "No Result" => match.winner = ComputedWinner(match)

\* the side p holds the flag of the set at 1-based place i
HoldsFlag(m, p, i) == i <= Len(m.players[p].sets) /\ m.players[p].sets[i] = 1

\* the side p has more games in the entry of setScores at 1-based place i
MoreGames(m, p, i) ==
    /\ m.setScores[i] # Hole
    /\ IF p = 1 THEN m.setScores[i].p1Games > m.setScores[i].p2Games
                ELSE m.setScores[i].p2Games > m.setScores[i].p1Games

\* C35: for every entry of setScores the side with more games in it, and
\* only that side, holds the set flag of that index, and no side holds a flag
\* at an index at or beyond the length of setScores.
SetFlagsAligned ==
    match # NoMatch =>
        /\ \A i \in 1..Len(match.setScores) : \A p \in Sides :
               HoldsFlag(match, p, i) <=> MoreGames(match, p, i)
        /\ \A p \in Sides : \A i \in 1..Len(match.players[p].sets) :
               i > Len(match.setScores) => ~HoldsFlag(match, p, i)

\* C36: for each side firstServeIn <= firstServeTotal, firstServeWon <=
\* firstServeIn, secondServeAttempts = firstServeTotal - firstServeIn,
\* secondServeWon + doubleFaults <= secondServeAttempts and aces <=
\* firstServeWon + secondServeWon; the two sides' firstServeTotal sum to the
\* length of pointHistory.
ServeStatsConsistent ==
    match # NoMatch =>
        /\ \A p \in Sides :
              LET st == match.players[p].stats
              IN  /\ st.firstServeIn <= st.firstServeTotal
                  /\ st.firstServeWon <= st.firstServeIn
                  /\ st.secondServeAttempts = st.firstServeTotal - st.firstServeIn
                  /\ st.secondServeWon + st.doubleFaults <= st.secondServeAttempts
                  /\ st.aces <= st.firstServeWon + st.secondServeWon
        /\ match.players[1].stats.firstServeTotal
             + match.players[2].stats.firstServeTotal = Len(match.pointHistory)

\* the dialog has recorded a double fault: the server's second-serve
\* attempts are all double faults
ServeStatsWitness ==
    /\ match # NoMatch
    /\ lastOp.name = "selectSecondServe"
    /\ ~serveModal.visible
    /\ Len(match.pointHistory) = 1
    /\ \E p \in Sides :
          /\ match.players[p].stats.doubleFaults = 1
          /\ match.players[p].stats.secondServeAttempts = 1

\* the dialog has recorded a second-serve ace
SecondServeAceWitness ==
    /\ match # NoMatch
    /\ Len(match.pointHistory) = 1
    /\ \E p \in Sides :
          /\ match.players[p].stats.aces = 1
          /\ match.players[p].stats.secondServeWon = 1

\* C37: when the stored list holds a record for the active match's id with
\* isInProgress false, the active match is complete.
StoredFinishedOnlyWhenComplete ==
    (match # NoMatch /\ FindIndex(matches, match.id) > 0
       /\ ~StoredFor(matches, match.id).isInProgress) => match.matchComplete

-----------------------------------------------------------------------------
(* The game-complete prompt and its timer, with the fast forward and end     *)
(* match dialogs.  finalisePoint sets a 300 ms timer when a point wins a     *)
(* game; the callback runs as a step of its own, after any number of user    *)
(* steps.  A visible dialog is taken to cover the scoreboard: the            *)
(* scoreboard's buttons are pressed only while no dialog is visible.         *)

\* timers that may be pending at once
MaxTimers == 1

\* what is typed into the prompt's textarea
GameCommentTexts == {"held to love"}

NoDialog ==
    /\ ~serveModal.visible
    /\ ~gameCommentModal.visible
    /\ ~fastForwardModal.visible
    /\ ~endMatchModal.visible

\* finalisePoint(winner, ...) reaches its setTimeout call: the point wins a game
finalisePointSetsTimer(m, winner) ==
    /\ m # NoMatch
    /\ ~m.matchComplete
    /\ checkGameWin([m EXCEPT !.players[winner].points = Incr(@)], winner)

\* gameNumber and setNumber of the record finalisePoint builds
RecordStamp(m) ==
    [setNumber |-> m.currentSet + 1,
     gameNumber |-> m.players[1].games + m.players[2].games + 1]

showGameCommentModal(d) == [visible |-> TRUE, comment |-> ""]

\* the key `set${n}_game${g}` of saveGameComment, as the pair it is built from
GameKey(m) ==
    [setNumber |-> m.currentSet + 1,
     gameNumber |-> m.players[1].games + m.players[2].games]

\* comments[key] = entry
PutComment(comments, key, text) ==
    {c \in comments : c.key # key}
        \cup {[key |-> key, comment |-> text,
               setNumber |-> key.setNumber, gameNumber |-> key.gameNumber]}

\* saveGameComment(): with text typed and no match, reading this.match.currentSet
\* throws and the prompt stays as it is
saveGameComment(m, d, comments) ==
    IF d.comment # "" /\ m = NoMatch
    THEN [dialog |-> d, comments |-> comments]
    ELSE [dialog |-> [d EXCEPT !.visible = FALSE],
          comments |-> IF d.comment # ""
                       THEN PutComment(comments, GameKey(m), d.comment)
                       ELSE comments]

cancelGameComment(d) == [d EXCEPT !.visible = FALSE]

\* startMatch() and startJoinMatch() hide the three dialogs
HideDialogs ==
    /\ gameCommentModal' = [gameCommentModal EXCEPT !.visible = FALSE]
    /\ fastForwardModal' = [visible |-> FALSE]
    /\ endMatchModal' = [visible |-> FALSE]

StartMatchFresh ==
    /\ stage = "setup"
    /\ nextId <= MaxMatches
    /\ match' = createMatch(nextId, 3, 1)
    /\ nextId' = nextId + 1
    /\ stage' = "match"
    /\ HideDialogs
    /\ gameComments' = NoComments
    /\ lastOp' = Op("startMatch", FALSE)
    /\ UNCHANGED <<matches, overrides, serveModal, timers, gameWon>>

StartJoinMatchFresh ==
    /\ stage = "setup"
    /\ nextId <= MaxMatches
    /\ \E form \in JoinForms : match' = startJoinMatch(nextId, form)
    /\ nextId' = nextId + 1
    /\ stage' = "match"
    /\ HideDialogs
    /\ gameComments' = NoComments
    /\ lastOp' = Op("startJoinMatch", FALSE)
    /\ UNCHANGED <<matches, overrides, serveModal, timers, gameWon>>

\* the Point Played button
PointPlayed ==
    /\ stage = "match"
    /\ NoDialog
    /\ match # NoMatch /\ ~match.matchComplete
    /\ Len(match.pointHistory) < MaxHist
    /\ serveModal' = openServeModal(match, serveModal)
    /\ lastOp' = Op("openServeModal", FALSE)
    /\ UNCHANGED <<stage, match, matches, nextId, overrides, prompts>>

\* a quick winner button of the point-entry dialog
QuickWinnerTimed ==
    /\ serveModal.visible
    /\ Len(timers) < MaxTimers
    /\ \E winner \in Sides :
          LET r == quickFinalizePoint(match, serveModal, winner)
              set == finalisePointSetsTimer(match, winner)
          IN  /\ match' = r.match
              /\ serveModal' = r.dialog
              /\ matches' = finalisePointStored(matches, match, r.match)
              /\ timers' = IF set THEN Append(timers, RecordStamp(match)) ELSE timers
    /\ lastOp' = Op("finalisePoint", match = NoMatch)
    /\ UNCHANGED <<stage, nextId, overrides, gameCommentModal, fastForwardModal,
                   endMatchModal, gameComments, gameWon>>

\* the close button of the point-entry dialog
ServeModalClosed ==
    /\ serveModal.visible
    /\ serveModal' = closeServeModal(serveModal)
    /\ lastOp' = Op("closeServeModal", FALSE)
    /\ UNCHANGED <<stage, match, matches, nextId, overrides, prompts>>

\* the callback of setTimeout runs
TimerFires ==
    /\ timers # <<>>
    /\ timers' = Tail(timers)
    /\ gameWon' = Head(timers)
    /\ gameCommentModal' = showGameCommentModal(gameCommentModal)
    /\ lastOp' = Op("showGameCommentModal", FALSE)
    /\ UNCHANGED <<stage, match, matches, nextId, overrides, serveModal,
                   fastForwardModal, endMatchModal, gameComments>>

\* text typed into the prompt
TypeGameComment ==
    /\ gameCommentModal.visible
    /\ gameCommentModal.comment = ""
    /\ \E text \in GameCommentTexts :
          gameCommentModal' = [gameCommentModal EXCEPT !.comment = text]
    /\ lastOp' = Op("typeGameComment", FALSE)
    /\ UNCHANGED <<stage, match, matches, nextId, overrides, serveModal,
                   fastForwardModal, endMatchModal, timers, gameComments, gameWon>>

\* Save & Continue
SaveGameComment ==
    /\ gameCommentModal.visible
    /\ LET r == saveGameComment(match, gameCommentModal, gameComments)
       IN  /\ gameCommentModal' = r.dialog
           /\ gameComments' = r.comments
    /\ lastOp' = Op("saveGameComment", gameCommentModal.comment = "")
    /\ UNCHANGED <<stage, match, matches, nextId, overrides, serveModal,
                   fastForwardModal, endMatchModal, timers, gameWon>>

\* Skip, or the prompt's close button
CancelGameComment ==
    /\ gameCommentModal.visible
    /\ gameCommentModal' = cancelGameComment(gameCommentModal)
    /\ lastOp' = Op("cancelGameComment", FALSE)
    /\ UNCHANGED <<stage, match, matches, nextId, overrides, serveModal,
                   fastForwardModal, endMatchModal, timers, gameComments, gameWon>>

\* the Undo Last Point button, disabled on a complete match or an empty history
UndoPressed ==
    /\ stage = "match"
    /\ NoDialog
    /\ match # NoMatch /\ ~match.matchComplete /\ match.pointHistory # <<>>
    /\ match' = undoLastPoint(match)
    /\ lastOp' = Op("undoLastPoint", FALSE)
    /\ UNCHANGED <<stage, matches, nextId, overrides, serveModal, prompts>>

\* the Fast Forward button
ShowFastForwardModal ==
    /\ stage = "match"
    /\ NoDialog
    /\ Total(overrides) < MaxOverrides
    /\ match # NoMatch /\ ~match.matchComplete
    /\ fastForwardModal' = [visible |-> TRUE]
    /\ lastOp' = Op("showFastForwardModal", FALSE)
    /\ UNCHANGED <<stage, match, matches, nextId, overrides, serveModal,
                   gameCommentModal, endMatchModal, timers, gameComments, gameWon>>

CancelFastForward ==
    /\ fastForwardModal.visible
    /\ fastForwardModal' = [visible |-> FALSE]
    /\ lastOp' = Op("cancelFastForward", FALSE)
    /\ UNCHANGED <<stage, match, matches, nextId, overrides, serveModal,
                   gameCommentModal, endMatchModal, timers, gameComments, gameWon>>

\* Update Match: applyFastForward() returns before closing when there is no match
UpdateMatch ==
    /\ fastForwardModal.visible
    /\ \E form \in FastForwardForms :
          LET m2 == applyFastForward(match, form)
          IN  /\ match' = m2
              /\ matches' = applyFastForwardStored(matches, match, m2)
    /\ fastForwardModal' = [visible |-> match = NoMatch]
    /\ overrides' = [overrides EXCEPT !.fastForward = @ + 1]
    /\ lastOp' = Op("applyFastForward", match = NoMatch)
    /\ UNCHANGED <<stage, nextId, serveModal, gameCommentModal, endMatchModal,
                   timers, gameComments, gameWon>>

\* the Match is Over button
ShowEndMatchModal ==
    /\ stage = "match"
    /\ NoDialog
    /\ Total(overrides) < MaxOverrides
    /\ match # NoMatch /\ ~match.matchComplete
    /\ endMatchModal' = [visible |-> TRUE]
    /\ lastOp' = Op("showEndMatchModal", FALSE)
    /\ UNCHANGED <<stage, match, matches, nextId, overrides, serveModal,
                   gameCommentModal, fastForwardModal, timers, gameComments, gameWon>>

CancelEndMatch ==
    /\ endMatchModal.visible
    /\ endMatchModal' = [visible |-> FALSE]
    /\ lastOp' = Op("cancelEndMatch", FALSE)
    /\ UNCHANGED <<stage, match, matches, nextId, overrides, serveModal,
                   gameCommentModal, fastForwardModal, timers, gameComments, gameWon>>

\* End Match with a result selected: confirmEndMatch() returns before closing
\* when there is no match
EndMatchConfirmed ==
    /\ endMatchModal.visible
    /\ \E result \in EndMatchResults, sheet \in EndMatchSheets :
          LET m2 == confirmEndMatch(match, result, sheet)
          IN  /\ match' = m2
              /\ matches' = saveCurrentMatch(matches, m2)
    /\ endMatchModal' = [visible |-> match = NoMatch]
    /\ overrides' = [overrides EXCEPT !.endMatch = @ + 1]
    /\ lastOp' = Op("confirmEndMatch", match = NoMatch)
    /\ UNCHANGED <<stage, nextId, serveModal, gameCommentModal, fastForwardModal,
                   timers, gameComments, gameWon>>

\* the Go Home button of the scoreboard
GoHomePressed ==
    /\ stage = "match"
    /\ NoDialog
    /\ matches' = saveCurrentMatch(matches, match)
    /\ match' = NoMatch
    /\ stage' = "review"
    /\ IF match = NoMatch
       THEN UNCHANGED <<gameCommentModal, fastForwardModal, endMatchModal>>
       ELSE HideDialogs
    /\ gameComments' = NoComments
    /\ lastOp' = Op("goHome", match = NoMatch)
    /\ UNCHANGED <<nextId, overrides, serveModal, timers, gameWon>>

\* the New Match button with the confirm() answered yes where it is asked
ResetMatch ==
    /\ stage = "match"
    /\ NoDialog
    /\ match' = NoMatch
    /\ endMatchModal' = [visible |-> FALSE]
    /\ stage' = "setup"
    /\ gameComments' = NoComments
    /\ lastOp' = Op("resetMatch", FALSE)
    /\ UNCHANGED <<matches, nextId, overrides, serveModal, gameCommentModal,
                   fastForwardModal, timers, gameWon>>

NextDialogs ==
    \/ StartMatchFresh
    \/ StartJoinMatchFresh
    \/ PointPlayed
    \/ QuickWinnerTimed
    \/ ServeModalClosed
    \/ TimerFires
    \/ TypeGameComment
    \/ SaveGameComment
    \/ CancelGameComment
    \/ UndoPressed
    \/ ShowFastForwardModal
    \/ CancelFastForward
    \/ UpdateMatch
    \/ ShowEndMatchModal
    \/ CancelEndMatch
    \/ EndMatchConfirmed
    \/ GoHomePressed
    \/ ResetMatch
    \/ NewMatchScreen

SpecDialogs == InitPlay /\ [][NextDialogs]_vars

\* C38: whenever the point-entry dialog, the game-complete prompt, the fast
\* forward dialog or the end match dialog is visible, there is an active
\* match.
DialogNeedsMatch ==
    ~NoDialog => match # NoMatch

\* Save & Continue has stored a comment
CommentSaved ==
    /\ lastOp'.name = "saveGameComment"
    /\ gameCommentModal.comment # ""
    /\ match # NoMatch

\* C31: a comment saved through the game-complete prompt is stored under
\* the set number and game number stamped on the point record whose game
\* win brought the prompt up, as its key and as its setNumber and gameNumber.
CommentForCompletedGame ==
    [][CommentSaved =>
         \E c \in gameComments' :
            /\ c.comment = gameCommentModal.comment
            /\ c.key = gameWon
            /\ c.setNumber = gameWon.setNumber
            /\ c.gameNumber = gameWon.gameNumber]_vars

====
